---- MODULE Spec2Model ----
(***************************************************************************)
(* Model of the leybold-opc client: CC frame encoding (packets.rs), the    *)
(* Connection round trip with its "66" handshake and the SDB download loop *)
(* (plc_connection.rs).                                                    *)
(*                                                                         *)
(* The specifications of the module:                                       *)
(*   SpecFrame  PacketCC::write_options applied to bounded packets         *)
(*   SpecQ      sequences of Connection::query calls against a server      *)
(*   SpecDl     download_sbd / _check_sdb against a scripted server        *)
(*   SpecVal    the value codec of opc_values.rs on bounded inputs         *)
(*   SpecRead   a batched parameter read: builder, request, response parse *)
(*   SpecWrite  a batched parameter write: items, request, send            *)
(*   SpecSdb    Sdb::read of bounded SDB files, lookups and type resolution *)
(***************************************************************************)
EXTENDS Integers, Sequences, FiniteSets, TLC

VARIABLES
    mode,       \* which driver owns the run: "frame", "query", "download", "val",
                \* "read", "write", "sdb"
    pkt,        \* SpecFrame: the PacketCC handed to write_options
    wbuf,       \* SpecFrame: the Vec<u8> behind the write cursor
    rhdr,       \* SpecFrame: header re-read from wbuf (NoHdr until read)
    fpc,        \* SpecFrame: "built", "written", "reread", "panic"
    pc,         \* position of the client inside query / download_sbd / _check_sdb
    log,        \* socket events in program order
    calls,      \* number of calls started on this Connection
    fns,        \* the function of every call started, in call order
    results,    \* result of every call that has returned, in call order
    r,          \* the local `r` of query / download_sbd: result of receive_response
    rxhdr,      \* the 24 header bytes read by receive_response_args
    rxbody,     \* the body bytes read by receive_response_args
    ackReply,   \* the bytes read into rbuf by the last send_66_ack
    srv,        \* SpecDl: the chunks the server still has to send
    srvAll,     \* SpecDl: the chunks the server was set up with
    srvTail,    \* SpecDl: what the server does once srv is empty: "eof" or "repeat"
    sink,       \* SpecDl: the writes made to sdb_file, in order
    pkt_cnt,    \* SpecDl: the local pkt_cnt of download_sbd
    nrecv,      \* SpecDl: the chunk responses parsed by the download so far
    vop,        \* SpecVal: the codec function the run applies
    vty,        \* SpecVal: the descr index of the TypeInfo handed to it
    varg,       \* SpecVal: its input (bytes, a Value or a text)
    vres,       \* SpecVal: what it returned
    cpc,        \* SpecVal: "start", "encoded", "done"
    qset,       \* SpecRead: the Parameter handles of the ParamQuerySetBuilder
    bcalls,     \* SpecRead: the add / add_param calls the builder has received
    rpos,       \* SpecRead: position of the response reader in the body
    rdata,      \* SpecRead: the Values collected by parse_dyn_payload
    rpc,        \* SpecRead: "build", "sent", "parse", "done", "err", "panic"
    wreq,       \* SpecWrite: the (parameter, value) pairs of the write
    witems,     \* SpecWrite: the ParamWrite items built so far
    wpc,        \* SpecWrite: "items", "built", "sent", "senderr", "err", "panic"
    sblob,      \* SpecSdb: the fields of the SDB file, in file order
    sload,      \* SpecSdb: what Sdb::read returned for it
    sfind,      \* SpecSdb: the last lookup or type resolution and its result
    spc         \* SpecSdb: "file", "loaded", "loaderr", "found", "resolved", "panic"

vars == <<mode, pkt, wbuf, rhdr, fpc, pc, log, calls, fns, results, r, rxhdr, rxbody,
          ackReply, srv, srvAll, srvTail, sink, pkt_cnt, nrecv,
          vop, vty, varg, vres, cpc, qset, bcalls, rpos, rdata, rpc,
          wreq, witems, wpc, sblob, sload, sfind, spc>>

frameVars == <<pkt, wbuf, rhdr, fpc>>
connVars == <<pc, log, calls, fns, results, r, rxhdr, rxbody, ackReply>>
dlVars == <<srv, srvAll, srvTail, sink, pkt_cnt, nrecv>>
valVars == <<vop, vty, varg, vres, cpc>>
readVars == <<qset, bcalls, rpos, rdata, rpc>>
writeVars == <<wreq, witems, wpc>>
sdbVars == <<sblob, sload, sfind, spc>>
codecVars == <<valVars, readVars, writeVars, sdbVars>>

(***************************************************************************)
(* Bounds of the model.                                                    *)
(***************************************************************************)
MaxParams == 2      \* ReadItems / WriteItems per framed request
MaxData == 2        \* bytes of an opaque payload / of a write item
MaxCalls == 2       \* query calls per Connection
MaxBody == 2        \* body bytes of a response to query
MaxChunks == 2      \* chunks in the server's download script

(***************************************************************************)
(* Bytes and big-endian integers.                                          *)
(***************************************************************************)
RECURSIVE BE(_, _)
\* n.to_be_bytes() truncated to w bytes, as binrw writes an integer field
BE(n, w) == IF w = 0 THEN <<>> ELSE Append(BE(n \div 256, w - 1), n % 256)

RECURSIVE BEval(_)
\* the unsigned integer read big-endian from a byte sequence
BEval(bs) == IF bs = <<>> THEN 0
             ELSE BEval(SubSeq(bs, 1, Len(bs) - 1)) * 256 + bs[Len(bs)]

RECURSIVE Concat(_)
Concat(ss) == IF ss = <<>> THEN <<>> ELSE Head(ss) \o Concat(Tail(ss))

RECURSIVE SeqsUpTo(_, _)
SeqsUpTo(S, n) == IF n = 0 THEN {<<>>}
                  ELSE SeqsUpTo(S, n - 1) \cup
                       {Append(s, x) : s \in {t \in SeqsUpTo(S, n - 1) : Len(t) = n - 1}, x \in S}

U16Max == 65535

(***************************************************************************)
(* std::io::Cursor<&mut Vec<u8>>: a write at pos overwrites the bytes      *)
(* there and extends the vector past its end.                              *)
(***************************************************************************)
CursorWrite(cur, bytes) ==
    LET end == cur.pos + Len(bytes)
        newlen == IF end > Len(cur.buf) THEN end ELSE Len(cur.buf)
    IN [buf |-> [i \in 1..newlen |->
                    IF i > cur.pos /\ i <= end THEN bytes[i - cur.pos] ELSE cur.buf[i]],
        pos |-> end]

CursorSeek(cur, p) == [cur EXCEPT !.pos = p]

(***************************************************************************)
(* PacketCCHeader (packets.rs 17-43).                                      *)
(***************************************************************************)
Magic == <<204, 204, 0, 1>>

HeaderDefault ==
    [u16_zero |-> 0, payload_len |-> 0, u64_8_f |-> 0,
     one_if_data_poll_maybe |-> 0, u8_14 |-> 0, len2 |-> 0, b17 |-> 0]

new_cmd == [HeaderDefault EXCEPT !.b17 = 35]

\* mutant: the header keeps its stored payload_len / len2 fields
PacketCCHeader_write_stored(hdr, payload_len_wr) ==
    Magic \o BE(hdr.u16_zero, 2) \o BE(hdr.payload_len, 2) \o BE(hdr.u64_8_f, 8)
          \o BE(hdr.one_if_data_poll_maybe, 4) \o BE(hdr.u8_14, 1)
          \o BE(hdr.len2, 2) \o BE(hdr.b17, 1)

\* #[bw(big, magic = 0xCCCC0001u32, import (payload_len_wr: u16))]
PacketCCHeader_write(hdr, payload_len_wr) ==
    Magic \o BE(hdr.u16_zero, 2) \o BE(payload_len_wr, 2) \o BE(hdr.u64_8_f, 8)
          \o BE(hdr.one_if_data_poll_maybe, 4) \o BE(hdr.u8_14, 1)
          \o BE(payload_len_wr, 2) \o BE(hdr.b17, 1)

NoHdr == [ok |-> FALSE, hdr |-> HeaderDefault]

\* #[br(big, magic = 0xCCCC0001u32)]: not ok on short input or bad magic
PacketCCHeader_read(bs) ==
    IF Len(bs) < 24 \/ SubSeq(bs, 1, 4) # Magic THEN NoHdr
    ELSE [ok |-> TRUE,
          hdr |-> [u16_zero |-> BEval(SubSeq(bs, 5, 6)),
                   payload_len |-> BEval(SubSeq(bs, 7, 8)),
                   u64_8_f |-> BEval(SubSeq(bs, 9, 16)),
                   one_if_data_poll_maybe |-> BEval(SubSeq(bs, 17, 20)),
                   u8_14 |-> BEval(SubSeq(bs, 21, 21)),
                   len2 |-> BEval(SubSeq(bs, 22, 23)),
                   b17 |-> BEval(SubSeq(bs, 24, 24))]]

(***************************************************************************)
(* Payloads (packets.rs 126-240, 335-434).  A payload is a record          *)
(* [kind, data, params, sdb_id]; params are ParamRead [param_id,           *)
(* response_len] or ParamWrite [param_id, data] records.                   *)
(***************************************************************************)
DownloadSdbName == <<0, 0, 14, 68, 79, 87, 78, 76, 79, 65, 68, 46, 83, 68, 66, 0, 0>>

Payload(kind, data, params, sdb_id) ==
    [kind |-> kind, data |-> data, params |-> params, sdb_id |-> sdb_id]

PayloadUnknown_from(d) == Payload("Unknown", d, <<>>, 0)

ParamRead_new(param_id, response_len) ==
    [param_id |-> param_id, response_len |-> response_len]

\* mutant: the 0x0003 magic of a ReadItem is left out
ParamRead_write_nomagic(p) == BE(p.param_id, 4) \o BE(p.response_len, 4)

\* #[bw(big, magic = 0x03u16)] struct ParamRead
ParamRead_write(p) == BE(3, 2) \o BE(p.param_id, 4) \o BE(p.response_len, 4)

\* #[bw(big, magic = 3u16)] struct ParamWrite, data_len calculated from data
ParamWrite_write(p) == BE(3, 2) \o BE(p.param_id, 4) \o BE(Len(p.data), 4) \o p.data

\* ParamsReadQuery::new: one ParamRead per parameter of the query set, in order
ParamsReadQuery_new(sdb_id, query_set) ==
    Payload("ParamsReadQuery", <<>>,
            [i \in 1..Len(query_set) |->
                ParamRead_new(query_set[i].id, query_set[i].response_len)],
            sdb_id)

PayloadParamWrite_new(sdb_id, params) == Payload("PayloadParamWrite", <<>>, params, sdb_id)

SdbVersionQuery_new == Payload("SdbVersionQuery", DownloadSdbName, <<>>, 0)
SdbDownloadRequest_new == Payload("SdbDownloadRequest", DownloadSdbName, <<>>, 0)
SdbDownloadContinue == Payload("SdbDownloadContinue", <<>>, <<>>, 0)
InstrumentVersionQuery == Payload("InstrumentVersionQuery", <<>>, <<>>, 0)

\* the derived BinWrite of every payload type
Payload_write(p) ==
    CASE p.kind = "Unknown" -> p.data
      [] p.kind = "ParamsReadQuery" ->
            BE(46 * 256, 2) \o BE(Len(p.params), 4)
            \o Concat([i \in 1..Len(p.params) |-> ParamRead_write(p.params[i])])
            \o BE(p.sdb_id, 4)
      [] p.kind = "PayloadParamWrite" ->
            BE(60 * 256, 2) \o BE(Len(p.params), 4)
            \o Concat([i \in 1..Len(p.params) |-> ParamWrite_write(p.params[i])])
            \o BE(p.sdb_id, 4)
      [] p.kind = "InstrumentVersionQuery" -> <<17>>
      [] p.kind = "SdbVersionQuery" -> <<52>> \o p.data
      [] p.kind = "SdbDownloadRequest" -> <<49>> \o p.data
      [] p.kind = "SdbDownloadContinue" -> <<50>>

(***************************************************************************)
(* PacketCC (packets.rs 45-124).                                           *)
(***************************************************************************)
PacketCC_new(payload) == [hdr |-> new_cmd, payload |-> payload]

\* ParamQuerySetBuilder::into_query_packet
into_query_packet(sdb_id, query_set) ==
    LET p == PacketCC_new(ParamsReadQuery_new(sdb_id, query_set))
    IN [p EXCEPT !.hdr.one_if_data_poll_maybe = 1]

\* mutant: the header is not patched after the payload has been written
PacketCC_write_options_nopatch(p, cur) ==
    LET c1 == CursorWrite(cur, PacketCCHeader_write(p.hdr, 0))
        c2 == CursorWrite(c1, Payload_write(p.payload))
    IN [buf |-> c2.buf, pos |-> c2.pos, panic |-> FALSE]

\* impl BinWrite for PacketCC: header with length 0, payload, seek back,
\* header again with the measured length.  It panics when the length does not
\* fit a u16 (the expect on try_into).
PacketCC_write_options(p, cur) ==
    LET hdr_start == cur.pos
        c1 == CursorWrite(cur, PacketCCHeader_write(p.hdr, 0))
        payload_start == c1.pos
        c2 == CursorWrite(c1, Payload_write(p.payload))
        len == c2.pos - payload_start
        c3 == CursorWrite(CursorSeek(c2, hdr_start), PacketCCHeader_write(p.hdr, len))
    IN IF len > U16Max THEN [buf |-> c2.buf, pos |-> c2.pos, panic |-> TRUE]
       ELSE [buf |-> c3.buf, pos |-> c3.pos, panic |-> FALSE]

\* Connection::send builds the frame in a fresh Vec through a Cursor at 0
SendBuffer(p) == PacketCC_write_options(p, [buf |-> <<>>, pos |-> 0])

(***************************************************************************)
(* SpecFrame: write_options applied to the packets the client can build.   *)
(***************************************************************************)
S3ParamId == 292988     \* 0x4787C
S3SdbId == 152372       \* 0x00025334
S3WideLen == 21         \* 0x15

QParams ==
    {[id |-> S3ParamId, response_len |-> 4],
     [id |-> S3ParamId - 4, response_len |-> 4],
     [id |-> S3ParamId, response_len |-> S3WideLen]}

DataBytes == {0, 17, 255}

WItems == {[param_id |-> S3ParamId, data |-> d] : d \in SeqsUpTo({0, 255}, MaxData)}

\* a header carried over from elsewhere: its stored length fields are stale
StaleHdr == [new_cmd EXCEPT !.payload_len = 5, !.len2 = 7]

FramePackets ==
    {into_query_packet(S3SdbId, qs) : qs \in SeqsUpTo(QParams, MaxParams)}
    \cup {PacketCC_new(PayloadUnknown_from(d)) : d \in SeqsUpTo(DataBytes, MaxData)}
    \cup {[hdr |-> StaleHdr, payload |-> PayloadUnknown_from(d)] : d \in SeqsUpTo(DataBytes, MaxData)}
    \cup {PacketCC_new(PayloadParamWrite_new(S3SdbId, ws)) : ws \in SeqsUpTo(WItems, MaxParams)}
    \cup {PacketCC_new(p) : p \in {SdbVersionQuery_new, SdbDownloadRequest_new,
                                   SdbDownloadContinue, InstrumentVersionQuery}}

NoPacket == [hdr |-> HeaderDefault, payload |-> PayloadUnknown_from(<<>>)]

ConnIdle ==
    /\ pc = "idle" /\ log = <<>> /\ calls = 0 /\ fns = <<>> /\ results = <<>>
    /\ r = "none" /\ rxhdr = <<>> /\ rxbody = <<>> /\ ackReply = <<>>

DlIdle ==
    /\ srv = <<>> /\ srvAll = <<>> /\ srvTail = "eof"
    /\ sink = <<>> /\ pkt_cnt = 0 /\ nrecv = 0

FrameIdle == pkt = NoPacket /\ wbuf = <<>> /\ rhdr = NoHdr /\ fpc = "built"

ValIdle == vop = "none" /\ vty = 0 /\ varg = <<>> /\ vres = <<>> /\ cpc = "start"

ReadIdle == qset = <<>> /\ bcalls = <<>> /\ rpos = 0 /\ rdata = <<>> /\ rpc = "build"

WriteIdle == wreq = <<>> /\ witems = <<>> /\ wpc = "items"

SdbIdle == sblob = <<>> /\ sload = <<>> /\ sfind = <<>> /\ spc = "file"

CodecIdle == ValIdle /\ ReadIdle /\ WriteIdle /\ SdbIdle

InitFrame ==
    /\ mode = "frame"
    /\ pkt \in FramePackets
    /\ wbuf = <<>> /\ rhdr = NoHdr /\ fpc = "built"
    /\ ConnIdle /\ DlIdle /\ CodecIdle

\* pkt.write_be(&mut Cursor::new(&mut buf)) as in Connection::send
WriteFrame ==
    /\ mode = "frame" /\ fpc = "built"
    /\ LET res == SendBuffer(pkt)
       IN IF res.panic
          THEN fpc' = "panic" /\ wbuf' = wbuf
          ELSE fpc' = "written" /\ wbuf' = res.buf
    /\ UNCHANGED <<mode, codecVars, pkt, rhdr, connVars, dlVars>>

\* PacketCCHeader::read on the first 24 bytes of the written buffer
ReReadHeader ==
    /\ mode = "frame" /\ fpc = "written"
    /\ rhdr' = PacketCCHeader_read(SubSeq(wbuf, 1, 24))
    /\ fpc' = "reread"
    /\ UNCHANGED <<mode, codecVars, pkt, wbuf, connVars, dlVars>>

NextFrame == WriteFrame \/ ReReadHeader

SpecFrame == InitFrame /\ [][NextFrame]_vars

FrameWritten == mode = "frame" /\ fpc \in {"written", "reread"}

\* C9: every written CC frame starts with the magic CC CC 00 01, carries in
\* payload_len and in len2 the number of body bytes that follow the 24
\* header bytes, and re-reading its header yields that payload_len.
C9_FrameLength ==
    FrameWritten =>
        /\ Len(wbuf) >= 24
        /\ SubSeq(wbuf, 1, 4) = Magic
        /\ BEval(SubSeq(wbuf, 7, 8)) = Len(wbuf) - 24
        /\ BEval(SubSeq(wbuf, 22, 23)) = Len(wbuf) - 24
        /\ SubSeq(wbuf, 25, Len(wbuf)) = Payload_write(pkt.payload)
        /\ (fpc = "reread" =>
                /\ rhdr.ok
                /\ rhdr.hdr.payload_len = Len(wbuf) - 24
                /\ rhdr.hdr.len2 = rhdr.hdr.payload_len)

C9_Witness ==
    /\ fpc = "reread" /\ Len(wbuf) > 24
    /\ pkt.hdr.payload_len # Len(wbuf) - 24
    /\ rhdr.ok /\ rhdr.hdr.payload_len = Len(wbuf) - 24

S3Packet == into_query_packet(S3SdbId, <<[id |-> S3ParamId, response_len |-> 4]>>)

S3Body == <<46, 0, 0, 0, 0, 1, 0, 3, 0, 4, 120, 124, 0, 0, 0, 4, 0, 2, 83, 52>>

S3Framed(len) ==
    /\ SubSeq(wbuf, 1, 4) = Magic
    /\ BEval(SubSeq(wbuf, 7, 8)) = len
    /\ BEval(SubSeq(wbuf, 17, 20)) = 1
    /\ wbuf[24] = 35
    /\ SubSeq(wbuf, 25, Len(wbuf)) = S3Body

\* C10 as stated: the frame of the single read of 0x4787C (length 4, sdb_id
\* 0x00025334) has payload_len 0x0010 before the 20 body bytes.
C10_Original == (FrameWritten /\ pkt = S3Packet) => S3Framed(16)

\* C10 amended: the frame of the single read of 0x4787C (length 4, sdb_id
\* 0x00025334) has magic CC CC 00 01, payload_len 0x0014 (the 20 body bytes),
\* is_poll 1, role 0x23 and the body 2e 00 00 00 00 01 00 03 00 04 78 7C
\* 00 00 00 04 00 02 53 34.
C10_S3Frame == (FrameWritten /\ pkt = S3Packet) => S3Framed(20)

C10_Witness == FrameWritten /\ pkt = S3Packet /\ Len(wbuf) = 44

(***************************************************************************)
(* Response payloads (packets.rs 126-132, 386-393, 436-445).  A parsed     *)
(* response is [ok, continues, data].                                      *)
(***************************************************************************)
ParseErr == [ok |-> FALSE, continues |-> FALSE, data |-> <<>>]

\* PayloadUnknown: #[br(count = arg.hdr.payload_len)] data
PayloadUnknown_read(payload_len, body) ==
    IF Len(body) < payload_len THEN ParseErr
    ELSE [ok |-> TRUE, continues |-> FALSE, data |-> SubSeq(body, 1, payload_len)]

\* SdbVersionResponse: error_code u16, sbd_size u32, data [u8; 16]
SdbVersionResponse_read(body) ==
    IF Len(body) < 22 THEN ParseErr
    ELSE [ok |-> TRUE, continues |-> FALSE, data |-> SubSeq(body, 3, 6)]

\* SdbDownload: continues u32 (0 -> false, 1 -> true, else error),
\* pkt_sdb_part_len u16, sdb_part of that many bytes
SdbDownload_read(body) ==
    IF Len(body) < 6 THEN ParseErr
    ELSE LET x == BEval(SubSeq(body, 1, 4))
             pkt_sdb_part_len == BEval(SubSeq(body, 5, 6))
         IN IF x \notin {0, 1} \/ Len(body) < 6 + pkt_sdb_part_len THEN ParseErr
            ELSE [ok |-> TRUE, continues |-> (x = 1),
                  data |-> SubSeq(body, 7, 6 + pkt_sdb_part_len)]

\* QueryPacket::Response of each command, read after the header
Response_read(kind, payload_len, body) ==
    CASE kind \in {"SdbDownloadRequest", "SdbDownloadContinue", "Download"} ->
            SdbDownload_read(body)
      [] kind = "SdbVersionQuery" -> SdbVersionResponse_read(body)
      [] OTHER -> PayloadUnknown_read(payload_len, body)

(***************************************************************************)
(* The "66" handshake (plc_connection.rs 88-108).                          *)
(***************************************************************************)
Ack66Request ==
    <<102, 102, 0, 1, 0, 0, 0, 0, 0, 0, 0, 0, 0, 0, 0, 0, 0, 0, 0, 1, 2, 0, 0, 4>>

Ack66Reply ==
    <<102, 102, 0, 0, 0, 0, 0, 0, 0, 0, 0, 0, 0, 0, 0, 25, 0, 0, 0, 0, 0, 0, 0, 4>>

\* a reply as seen in captures that differs from the reference in one byte
Ack66Other == [Ack66Reply EXCEPT ![16] = 26]

\* mutant: the bail on an unexpected reply is active
send_66_ack_check_strict(rbuf) == rbuf = Ack66Reply

\* the comparison of rbuf with the reference: its only statement is
\* commented out, so the function goes on to Ok(()) either way
send_66_ack_check(rbuf) == IF rbuf # Ack66Reply THEN TRUE ELSE TRUE

(***************************************************************************)
(* The socket log.  An event is [call, ev, ok, n, total, op]: n bytes      *)
(* moved, of total asked for; op is the first body byte of a request, the  *)
(* payload_len of a response header, 0 otherwise.                          *)
(***************************************************************************)
Event(ev, ok, n, total, op) ==
    [call |-> calls, ev |-> ev, ok |-> ok, n |-> n, total |-> total, op |-> op]

NoR == [ok |-> FALSE, continues |-> FALSE, data |-> <<>>]

\* what a call returned: ok / src of the error, the value, and the locals
\* r and rbuf it held when it returned
Result(ok, src, rr, rbuf) ==
    [ok |-> ok, src |-> src, val |-> IF ok THEN rr.data ELSE <<>>,
     r |-> rr, rbuf |-> rbuf]

\* return Err(..) raised by `src`
ReturnErr(src, rr, rbuf) ==
    /\ pc' = "idle"
    /\ results' = Append(results, Result(FALSE, src, rr, rbuf))

\* return r
ReturnR(rr, rbuf) ==
    /\ pc' = "idle"
    /\ results' = Append(results, Result(rr.ok, IF rr.ok THEN "none" ELSE "recv", rr, rbuf))

Goto(next) == pc' = next /\ results' = results

\* mutant: the ack is exchanged before the response is read
query_flow_ackfirst(at, ok) ==
    CASE at = "q_send" -> IF ok THEN "q_ack_write" ELSE "return"
      [] at = "q_ack_write" -> IF ok THEN "q_ack_read" ELSE "return"
      [] at = "q_ack_read" -> IF ok THEN "q_recv_hdr" ELSE "return"
      [] at = "q_recv_hdr" -> IF ok THEN "q_recv_body" ELSE "return"
      [] at = "q_recv_body" -> "return"

\* mutant: the response is returned without the handshake
query_flow_noack(at, ok) ==
    CASE at = "q_send" -> IF ok THEN "q_recv_hdr" ELSE "return"
      [] at = "q_recv_hdr" -> IF ok THEN "q_recv_body" ELSE "return"
      [] at = "q_recv_body" -> "return"
      [] at = "q_ack_write" -> IF ok THEN "q_ack_read" ELSE "return"
      [] at = "q_ack_read" -> "return"

\* mutant: a failed response returns at once, `self.receive_response()?`
query_flow_early(at, ok) ==
    CASE at = "q_send" -> IF ok THEN "q_recv_hdr" ELSE "return"
      [] at = "q_recv_hdr" -> IF ok THEN "q_recv_body" ELSE "return"
      [] at = "q_recv_body" -> IF ok THEN "q_ack_write" ELSE "return"
      [] at = "q_ack_write" -> IF ok THEN "q_ack_read" ELSE "return"
      [] at = "q_ack_read" -> "return"

\* Connection::query: self.send(pkt)?; let r = self.receive_response();
\* self.send_66_ack()?; r
query_flow(at, ok) ==
    CASE at = "q_send" -> IF ok THEN "q_recv_hdr" ELSE "return"
      [] at = "q_recv_hdr" -> IF ok THEN "q_recv_body" ELSE "q_ack_write"
      [] at = "q_recv_body" -> "q_ack_write"
      [] at = "q_ack_write" -> IF ok THEN "q_ack_read" ELSE "return"
      [] at = "q_ack_read" -> "return"

(***************************************************************************)
(* The server seen from the socket of a query.                             *)
(***************************************************************************)
RoleResponse == 39      \* 0x27

ServerHeader(len) == PacketCCHeader_write([HeaderDefault EXCEPT !.b17 = RoleResponse], len)

BadMagicHeader == [ServerHeader(0) EXCEPT ![1] = 0]

ChunkBody(cont, part) == BE(cont, 4) \o BE(Len(part), 2) \o part

RespBodies == SeqsUpTo({0}, MaxBody) \cup {ChunkBody(1, <<7>>)}

ServerHeaders == {ServerHeader(Len(b)) : b \in RespBodies} \cup {BadMagicHeader}

QueryPackets ==
    {PacketCC_new(PayloadParamWrite_new(S3SdbId, <<[param_id |-> S3ParamId, data |-> <<0, 1>>]>>)),
     PacketCC_new(SdbDownloadContinue)}

InitQ ==
    /\ mode = "query"
    /\ FrameIdle /\ ConnIdle /\ DlIdle /\ CodecIdle

(***************************************************************************)
(* Connection::query (plc_connection.rs 25-34), one action per socket      *)
(* operation of send, receive_response_args and send_66_ack.               *)
(***************************************************************************)
QueryCall ==
    /\ mode = "query" /\ pc = "idle" /\ calls < MaxCalls
    /\ \E p \in QueryPackets : pkt' = p
    /\ calls' = calls + 1
    /\ fns' = Append(fns, "query")
    /\ pc' = "q_send"
    /\ r' = NoR /\ rxhdr' = <<>> /\ rxbody' = <<>> /\ ackReply' = <<>>
    /\ UNCHANGED <<mode, codecVars, wbuf, rhdr, fpc, log, results, dlVars>>

\* Connection::send: the frame is built, then write_all
QSend ==
    /\ mode = "query" /\ pc = "q_send"
    /\ LET buf == SendBuffer(pkt).buf
       IN \E ok \in BOOLEAN :
            /\ log' = Append(log, Event("req_w", ok, IF ok THEN Len(buf) ELSE Len(buf) - 1,
                                        Len(buf), IF Len(buf) > 24 THEN buf[25] ELSE 0))
            /\ LET next == query_flow(pc, ok)
               IN IF next = "return" THEN ReturnErr("send", r, ackReply) ELSE Goto(next)
    /\ UNCHANGED <<mode, codecVars, frameVars, calls, fns, r, rxhdr, rxbody, ackReply, dlVars>>

\* receive_response_args: read_exact of the 24 header bytes, PacketCCHeader::read
QRecvHdr ==
    /\ mode = "query" /\ pc = "q_recv_hdr"
    /\ \E h \in ServerHeaders \cup {<<>>} :
         LET parsed == PacketCCHeader_read(h)
             next == query_flow(pc, parsed.ok)
         IN /\ log' = Append(log, Event("hdr_r", h # <<>>, Len(h), 24,
                                        IF parsed.ok THEN parsed.hdr.payload_len ELSE 0))
            /\ rxhdr' = h
            /\ r' = NoR
            /\ IF next = "return" THEN ReturnR(r', ackReply) ELSE Goto(next)
    /\ UNCHANGED <<mode, codecVars, frameVars, calls, fns, rxbody, ackReply, dlVars>>

\* receive_response_args: buf.resize(payload_len + 24), read_exact of the body,
\* then the parse of the whole frame
QRecvBody ==
    /\ mode = "query" /\ pc = "q_recv_body"
    /\ LET payload_len == PacketCCHeader_read(rxhdr).hdr.payload_len
       IN \E ok \in BOOLEAN, b \in {x \in RespBodies : Len(x) = payload_len} :
            /\ ok \/ payload_len > 0
            /\ log' = Append(log, Event("body_r", ok, IF ok THEN payload_len ELSE 0,
                                        payload_len, 0))
            /\ rxbody' = IF ok THEN b ELSE <<>>
            /\ r' = IF ok THEN Response_read(pkt.payload.kind, payload_len, b) ELSE NoR
            /\ LET next == query_flow(pc, r'.ok)
               IN IF next = "return" THEN ReturnR(r', ackReply) ELSE Goto(next)
    /\ UNCHANGED <<mode, codecVars, frameVars, calls, fns, rxhdr, ackReply, dlVars>>

\* send_66_ack: write_all of the 24 ack bytes
QAckWrite ==
    /\ mode = "query" /\ pc = "q_ack_write"
    /\ \E ok \in BOOLEAN :
         /\ log' = Append(log, Event("ack_w", ok, IF ok THEN Len(Ack66Request) ELSE 0,
                                     Len(Ack66Request), 0))
         /\ LET next == query_flow(pc, ok)
            IN IF next = "return" THEN ReturnErr("ack", r, ackReply) ELSE Goto(next)
    /\ UNCHANGED <<mode, codecVars, frameVars, calls, fns, r, rxhdr, rxbody, ackReply, dlVars>>

\* send_66_ack: read_exact of the 24 reply bytes, the comparison, Ok(())
QAckRead ==
    /\ mode = "query" /\ pc = "q_ack_read"
    /\ \E rbuf \in {<<>>, Ack66Reply, Ack66Other} :
         LET ok == rbuf # <<>> /\ send_66_ack_check(rbuf)
             next == query_flow(pc, ok)
         IN /\ log' = Append(log, Event("ack_r", rbuf # <<>>, Len(rbuf), 24, 0))
            /\ ackReply' = rbuf
            /\ IF next = "return"
               THEN IF ok THEN ReturnR(r, rbuf) ELSE ReturnErr("ack", r, rbuf)
               ELSE Goto(next)
    /\ UNCHANGED <<mode, codecVars, frameVars, calls, fns, r, rxhdr, rxbody, dlVars>>

NextQ == QueryCall \/ QSend \/ QRecvHdr \/ QRecvBody \/ QAckWrite \/ QAckRead

SpecQ == InitQ /\ [][NextQ]_vars

(***************************************************************************)
(* Properties of query.                                                    *)
(***************************************************************************)
Rank(ev) ==
    CASE ev = "req_w" -> 1 [] ev = "hdr_r" -> 2 [] ev = "body_r" -> 3
      [] ev = "ack_w" -> 4 [] ev = "ack_r" -> 5

\* call c has the event ev, successful and complete, before index i of the log
Done(c, ev, i) ==
    \E j \in 1..(i - 1) :
        /\ log[j].call = c /\ log[j].ev = ev
        /\ log[j].ok /\ log[j].n = log[j].total

Attempted(c, ev, i) == \E j \in 1..(i - 1) : log[j].call = c /\ log[j].ev = ev

\* the payload_len announced by the header call c read
AnnouncedLen(c) ==
    LET j == CHOOSE j \in 1..Len(log) : log[j].call = c /\ log[j].ev = "hdr_r"
    IN log[j].op

\* C1: within every query call the socket events are ordered request write,
\* header read (24 bytes), body read (exactly payload_len bytes), ack write
\* (24 bytes), ack reply read (24 bytes); nothing is read before the request
\* is completely written, and no ack is written before the request has been
\* written and the response read has been attempted.
C1_QueryOrder ==
    /\ \A i, j \in 1..Len(log) :
          (i < j /\ log[i].call = log[j].call) => Rank(log[i].ev) < Rank(log[j].ev)
    /\ \A i \in 1..Len(log) :
          LET e == log[i]
          IN /\ e.ev # "req_w" => Done(e.call, "req_w", i)
             /\ e.ev = "hdr_r" => e.total = 24
             /\ e.ev = "body_r" =>
                   /\ Done(e.call, "hdr_r", i)
                   /\ e.total = AnnouncedLen(e.call)
                   /\ (e.ok => e.n = AnnouncedLen(e.call))
             /\ e.ev = "ack_w" => Attempted(e.call, "hdr_r", i) /\ e.total = 24
             /\ e.ev = "ack_r" => Done(e.call, "ack_w", i) /\ e.total = 24
    /\ \A c \in 1..Len(results) :
          results[c].ok =>
             \A ev \in {"req_w", "hdr_r", "body_r", "ack_w", "ack_r"} :
                Done(c, ev, Len(log) + 1)

C1_Witness ==
    \E c \in 1..Len(results) :
        /\ results[c].ok /\ results[c].val # <<>>
        /\ \E i \in 1..Len(log) : log[i].call = c /\ log[i].ev = "body_r" /\ log[i].n > 0

\* the exchange of call c is complete before index i of the log: response
\* read, ack written, 24 reply bytes read
Exchanged(c, i) ==
    /\ Done(c, "hdr_r", i) /\ Done(c, "body_r", i)
    /\ Done(c, "ack_w", i) /\ Done(c, "ack_r", i)

\* C2 as stated: no byte of a later request is written until the previous
\* call's response has been read and its ack exchange has completed.
C2_Original ==
    \A i \in 1..Len(log) :
        (log[i].ev = "req_w" /\ log[i].call > 1) => Exchanged(log[i].call - 1, i)

\* C2 amended: no byte of a later request is written until the previous call
\* has returned; if it returned Ok its response was read and its ack exchange
\* completed before, if it returned the response's error its ack exchange
\* completed before; a call that failed in send or in the handshake leaves
\* the exchange incomplete.  At most one call is in progress.
C2_Serialized ==
    /\ calls - Len(results) \in {0, 1}
    /\ (pc = "idle") = (calls = Len(results))
    /\ \A i \in 1..Len(log) :
          (log[i].ev = "req_w" /\ log[i].call > 1) =>
             LET c == log[i].call - 1
             IN /\ c <= Len(results)
                /\ \A j \in 1..Len(log) : log[j].call <= c => j < i
                /\ results[c].ok => Exchanged(c, i)
                /\ results[c].src = "recv" => Done(c, "ack_w", i) /\ Done(c, "ack_r", i)

C2_Witness ==
    \E i \in 1..Len(log) :
        /\ log[i].ev = "req_w" /\ log[i].call = 2
        /\ results[1].ok /\ Exchanged(1, i)

\* C8: a 24-byte ack reply that differs from the reference is not fatal: the
\* call returns what receive_response produced, the same as a call with the
\* reference reply; the handshake fails exactly when the ack write fails or
\* the 24 reply bytes cannot be read.
C8_AckMismatchNotFatal ==
    /\ \A c \in 1..Len(results) :
          LET res == results[c]
              ackFailed == \E i \in 1..Len(log) :
                              /\ log[i].call = c /\ log[i].ev \in {"ack_w", "ack_r"}
                              /\ ~log[i].ok
          IN /\ Len(res.rbuf) = 24 => (res.src # "ack" /\ res.ok = res.r.ok)
             /\ (res.src = "ack") = ackFailed
    /\ \A c1, c2 \in 1..Len(results) :
          (results[c1].r = results[c2].r /\ Len(results[c1].rbuf) = 24
                /\ Len(results[c2].rbuf) = 24)
             => /\ results[c1].ok = results[c2].ok
                /\ results[c1].val = results[c2].val
                /\ results[c1].src = results[c2].src

C8_Witness ==
    \E c \in 1..Len(results) :
        /\ results[c].rbuf = Ack66Other /\ results[c].rbuf # Ack66Reply
        /\ results[c].ok /\ results[c].val # <<>>

(***************************************************************************)
(* download_sbd and _check_sdb (plc_connection.rs 111-157).                *)
(***************************************************************************)
PktCap == 1000

\* fn query_download_sdb: PayloadUnknown "1\0\0\x0eDOWNLOAD.SDB\0\0"
query_download_sdb == PacketCC_new(PayloadUnknown_from(<<49>> \o DownloadSdbName))

\* mutant: the continue request is a copy of the begin request
query_continue_download_begin == PacketCC_new(PayloadUnknown_from(<<49>> \o DownloadSdbName))

\* fn query_continue_download: PayloadUnknown [b'2']
query_continue_download == PacketCC_new(PayloadUnknown_from(<<50>>))

\* PacketCC::new(PayloadSdbVersionQuery::new()) in _check_sdb
check_sdb_query == PacketCC_new(SdbVersionQuery_new)

\* `if r.payload.continues { break; }`
download_breaks(continues) == continues

\* mutant: the ack after the loop is left out
download_flow_nofinalack(at, ok, cnt, continues) ==
    CASE at \in {"d_send", "d_send_cont"} -> IF ok THEN "d_recv_hdr" ELSE "return"
      [] at = "d_recv_hdr" -> IF ok THEN "d_recv_body" ELSE "return"
      [] at = "d_recv_body" -> IF ok THEN "d_write" ELSE "return"
      [] at = "d_write" -> IF ok THEN "d_ack_write" ELSE "return"
      [] at = "d_ack_write" -> IF ok THEN "d_ack_read" ELSE "return"
      [] at = "d_ack_read" ->
            IF ~ok THEN "return"
            ELSE IF cnt > PktCap THEN "bail"
            ELSE IF download_breaks(continues) THEN "return"
            ELSE "d_send_cont"
      [] at = "d_fin_ack_write" -> IF ok THEN "d_fin_ack_read" ELSE "return"
      [] at = "d_fin_ack_read" -> "return"

\* the statements of download_sbd: where control goes after the step at
\* `at` ended with `ok`, pkt_cnt being cnt and the chunk's flag continues
download_flow(at, ok, cnt, continues) ==
    CASE at \in {"d_send", "d_send_cont"} -> IF ok THEN "d_recv_hdr" ELSE "return"
      [] at = "d_recv_hdr" -> IF ok THEN "d_recv_body" ELSE "return"
      [] at = "d_recv_body" -> IF ok THEN "d_write" ELSE "return"
      [] at = "d_write" -> IF ok THEN "d_ack_write" ELSE "return"
      [] at = "d_ack_write" -> IF ok THEN "d_ack_read" ELSE "return"
      [] at = "d_ack_read" ->
            IF ~ok THEN "return"
            ELSE IF cnt > PktCap THEN "bail"
            ELSE IF download_breaks(continues) THEN "d_fin_ack_write"
            ELSE "d_send_cont"
      [] at = "d_fin_ack_write" -> IF ok THEN "d_fin_ack_read" ELSE "return"
      [] at = "d_fin_ack_read" -> "return"

\* _check_sdb: send, receive_response?, send_66_ack?, Ok
check_flow(at, ok) ==
    CASE at = "v_send" -> IF ok THEN "v_recv_hdr" ELSE "return"
      [] at = "v_recv_hdr" -> IF ok THEN "v_recv_body" ELSE "return"
      [] at = "v_recv_body" -> IF ok THEN "v_ack_write" ELSE "return"
      [] at = "v_ack_write" -> IF ok THEN "v_ack_read" ELSE "return"
      [] at = "v_ack_read" -> "return"

Flow(at, ok) ==
    IF at \in {"v_send", "v_recv_hdr", "v_recv_body", "v_ack_write", "v_ack_read"}
    THEN check_flow(at, ok)
    ELSE download_flow(at, ok, pkt_cnt, r.continues)

(***************************************************************************)
(* The server of a download: a script of chunks; once the script is used   *)
(* up it is silent ("eof") or stuck, repeating its one chunk ("repeat").   *)
(***************************************************************************)
Parts == {<<1>>, <<2, 3>>}

Chunks == {[cont |-> c, part |-> p] : c \in {0, 1, 2}, p \in Parts}

VersionBody == BE(0, 2) \o BE(3, 4) \o [i \in 1..16 |-> 0]

HasChunk == srv # <<>> \/ srvTail = "repeat"

NextChunk == IF srv # <<>> THEN Head(srv) ELSE srvAll[Len(srvAll)]

\* the i-th chunk the server sends
ChunkAt(i) == IF i <= Len(srvAll) THEN srvAll[i] ELSE srvAll[Len(srvAll)]

InitDl ==
    /\ mode = "download"
    /\ FrameIdle /\ ConnIdle /\ CodecIdle
    /\ srvAll \in SeqsUpTo(Chunks, MaxChunks)
    /\ srv = srvAll
    /\ srvTail \in {"eof", "repeat"}
    /\ srvTail = "repeat" => srvAll \in {<<[cont |-> c, part |-> <<1>>]>> : c \in {0, 1, 2}}
    /\ sink = <<>> /\ pkt_cnt = 0 /\ nrecv = 0

InDl(at) == mode = "download" /\ pc = at

\* the caller runs _check_sdb on the fresh Connection (runs against the
\* stuck server go straight to download_sbd)
CheckCall ==
    /\ InDl("idle") /\ calls = 0 /\ srvTail = "eof"
    /\ calls' = calls + 1
    /\ fns' = Append(fns, "_check_sdb")
    /\ pkt' = check_sdb_query
    /\ pc' = "v_send"
    /\ r' = NoR /\ rxhdr' = <<>> /\ rxbody' = <<>> /\ ackReply' = <<>>
    /\ UNCHANGED <<mode, codecVars, wbuf, rhdr, fpc, log, results, dlVars>>

\* download_sbd entry: File::create("sdb_new.dat")?, pkt_cnt = 0
DownloadCall ==
    /\ InDl("idle") /\ "download_sbd" \notin {fns[i] : i \in 1..Len(fns)}
    /\ calls' = calls + 1
    /\ fns' = Append(fns, "download_sbd")
    /\ pkt' = query_download_sdb
    /\ r' = NoR /\ rxhdr' = <<>> /\ rxbody' = <<>> /\ ackReply' = <<>>
    /\ pkt_cnt' = 0 /\ sink' = <<>> /\ nrecv' = 0
    /\ \E created \in BOOLEAN :
         IF created THEN Goto("d_send")
         ELSE /\ pc' = "idle"
              /\ results' = Append(results, Result(FALSE, "file", NoR, <<>>))
    /\ UNCHANGED <<mode, codecVars, wbuf, rhdr, fpc, log, srv, srvAll, srvTail>>

\* conn.send(..)? of download_sbd and _check_sdb
DSend ==
    /\ mode = "download" /\ pc \in {"d_send", "d_send_cont", "v_send"}
    /\ LET p == IF pc = "d_send_cont" THEN query_continue_download ELSE pkt
           buf == SendBuffer(p).buf
       IN /\ pkt' = p
          /\ \E ok \in BOOLEAN :
               /\ log' = Append(log, Event("req_w", ok, IF ok THEN Len(buf) ELSE Len(buf) - 1,
                                           Len(buf), IF Len(buf) > 24 THEN buf[25] ELSE 0))
               /\ LET next == Flow(pc, ok)
                  IN IF next = "return" THEN ReturnErr("send", r, ackReply) ELSE Goto(next)
    /\ UNCHANGED <<mode, codecVars, wbuf, rhdr, fpc, calls, fns, r, rxhdr, rxbody, ackReply, dlVars>>

\* receive_response::<..>()?: the header
DRecvHdr ==
    /\ mode = "download" /\ pc \in {"d_recv_hdr", "v_recv_hdr"}
    /\ LET body == IF pc = "v_recv_hdr" THEN VersionBody
                   ELSE ChunkBody(NextChunk.cont, NextChunk.part)
           sent == IF pc = "v_recv_hdr" \/ HasChunk THEN {ServerHeader(Len(body))} ELSE {}
       IN \E h \in sent \cup {<<>>} :
            LET parsed == PacketCCHeader_read(h)
                next == Flow(pc, parsed.ok)
            IN /\ log' = Append(log, Event("hdr_r", h # <<>>, Len(h), 24,
                                           IF parsed.ok THEN parsed.hdr.payload_len ELSE 0))
               /\ rxhdr' = h
               /\ IF next = "return" THEN ReturnErr("recv", NoR, ackReply) ELSE Goto(next)
    /\ r' = NoR
    /\ UNCHANGED <<mode, codecVars, frameVars, calls, fns, rxbody, ackReply, dlVars>>

\* receive_response::<..>()?: the body and the parse
DRecvBody ==
    /\ mode = "download" /\ pc \in {"d_recv_body", "v_recv_body"}
    /\ LET payload_len == PacketCCHeader_read(rxhdr).hdr.payload_len
           body == IF pc = "v_recv_body" THEN VersionBody
                   ELSE ChunkBody(NextChunk.cont, NextChunk.part)
           kind == IF pc = "v_recv_body" THEN "SdbVersionQuery" ELSE "Download"
       IN \E ok \in BOOLEAN :
            LET rr == IF ok THEN Response_read(kind, payload_len, body) ELSE NoR
                next == Flow(pc, rr.ok)
            IN /\ log' = Append(log, Event("body_r", ok, IF ok THEN payload_len ELSE 0,
                                           payload_len, 0))
               /\ rxbody' = IF ok THEN body ELSE <<>>
               /\ r' = rr
               /\ nrecv' = IF rr.ok /\ pc = "d_recv_body" THEN nrecv + 1 ELSE nrecv
               /\ srv' = IF ok /\ pc = "d_recv_body" /\ srv # <<>> THEN Tail(srv) ELSE srv
               /\ IF next = "return" THEN ReturnErr("recv", rr, ackReply) ELSE Goto(next)
    /\ UNCHANGED <<mode, codecVars, frameVars, calls, fns, rxhdr, ackReply, srvAll, srvTail, sink, pkt_cnt>>

\* sdb_file.write_all(r.payload.sdb_part.as_slice())?; pkt_cnt += 1
DWrite ==
    /\ InDl("d_write")
    /\ \E ok \in BOOLEAN :
         LET next == Flow(pc, ok)
         IN /\ sink' = IF ok THEN Append(sink, r.data) ELSE sink
            /\ pkt_cnt' = IF ok THEN pkt_cnt + 1 ELSE pkt_cnt
            /\ IF next = "return" THEN ReturnErr("file", r, ackReply) ELSE Goto(next)
    /\ UNCHANGED <<mode, codecVars, frameVars, log, calls, fns, r, rxhdr, rxbody, ackReply,
                   srv, srvAll, srvTail, nrecv>>

\* send_66_ack()?: write_all of the 24 ack bytes
DAckWrite ==
    /\ mode = "download" /\ pc \in {"d_ack_write", "d_fin_ack_write", "v_ack_write"}
    /\ \E ok \in BOOLEAN :
         /\ log' = Append(log, Event("ack_w", ok, IF ok THEN Len(Ack66Request) ELSE 0,
                                     Len(Ack66Request), 0))
         /\ LET next == Flow(pc, ok)
            IN IF next = "return" THEN ReturnErr("ack", r, ackReply) ELSE Goto(next)
    /\ UNCHANGED <<mode, codecVars, frameVars, calls, fns, r, rxhdr, rxbody, ackReply, dlVars>>

\* send_66_ack()?: the reply; then the statements up to the next socket
\* operation: the cap on pkt_cnt, the break, or Ok(())
DAckRead ==
    /\ mode = "download" /\ pc \in {"d_ack_read", "d_fin_ack_read", "v_ack_read"}
    /\ \E rbuf \in {<<>>, Ack66Reply, Ack66Other} :
         LET ok == rbuf # <<>> /\ send_66_ack_check(rbuf)
             next == Flow(pc, ok)
         IN /\ log' = Append(log, Event("ack_r", rbuf # <<>>, Len(rbuf), 24, 0))
            /\ ackReply' = rbuf
            /\ CASE next = "bail" -> ReturnErr("cap", r, rbuf)
                 [] next = "return" /\ ~ok -> ReturnErr("ack", r, rbuf)
                 [] next = "return" /\ ok ->
                       /\ pc' = "idle"
                       /\ results' = Append(results, Result(TRUE, "none", r, rbuf))
                 [] OTHER -> Goto(next)
    /\ UNCHANGED <<mode, codecVars, frameVars, calls, fns, r, rxhdr, rxbody, dlVars>>

NextDl ==
    \/ CheckCall \/ DownloadCall \/ DSend \/ DRecvHdr \/ DRecvBody
    \/ DWrite \/ DAckWrite \/ DAckRead

SpecDl == InitDl /\ [][NextDl]_vars

(***************************************************************************)
(* Properties of the download.                                             *)
(***************************************************************************)
IsDownload(c) == c \in 1..Len(fns) /\ fns[c] = "download_sbd"

Returned(c) == c \in 1..Len(results)

InLoop == pc \in {"d_send", "d_send_cont", "d_recv_hdr", "d_recv_body", "d_write",
                  "d_ack_write", "d_ack_read"}

\* the indexes of the successful writes of kind ev made by call c
Writes(c, ev) == {i \in 1..Len(log) : log[i].call = c /\ log[i].ev = ev /\ log[i].ok}

OpBegin == 49       \* 0x31
OpContinue == 50    \* 0x32
OpVersion == 52     \* 0x34

\* C3: the loop issues a continue-download request only after a chunk whose
\* continues field is 1, and leaves the loop only at a chunk whose continues
\* field is 0.
C3_ContinueWhileMore ==
    mode = "download" =>
        /\ pc = "d_send_cont" => (r.ok /\ r.continues)
        /\ pc \in {"d_fin_ack_write", "d_fin_ack_read"} => (r.ok /\ ~r.continues)

\* the server returns N chunks with continues = 1, then one with continues = 0
ScriptWellFormed ==
    /\ srvTail = "eof" /\ Len(srvAll) >= 1
    /\ \A i \in 1..(Len(srvAll) - 1) : srvAll[i].cont = 1
    /\ srvAll[Len(srvAll)].cont = 0

\* C4: against a server that returns N chunks with continues = 1 and then one
\* with continues = 0, a download that returns Ok has made exactly N+1 sink
\* writes, the chunks' parts in arrival order.
C4_SinkHoldsAllChunks ==
    \A c \in 1..Len(results) :
        (IsDownload(c) /\ results[c].ok /\ ScriptWellFormed) =>
            /\ Len(sink) = Len(srvAll)
            /\ sink = [i \in 1..Len(srvAll) |-> srvAll[i].part]
            /\ Concat(sink) = Concat([i \in 1..Len(srvAll) |-> srvAll[i].part])

\* C5 as stated: a download that returned Ok has sent as many acks as it
\* received chunk responses.
C5_Original ==
    \A c \in 1..Len(results) :
        (IsDownload(c) /\ results[c].ok) => Cardinality(Writes(c, "ack_w")) = nrecv

\* C5 amended: the download sends one ack after every chunk response it
\* received and one more after the loop: while it loops the acks sent are
\* the chunks received, less the one not yet acked, and when it returns Ok
\* they are the chunks received plus one.
C5_AcksPerChunkPlusOne ==
    \A c \in 1..Len(fns) :
        IsDownload(c) =>
            LET acks == Cardinality(Writes(c, "ack_w"))
            IN /\ (~Returned(c) /\ InLoop) => acks \in {nrecv - 1, nrecv}
               /\ (~Returned(c) /\ pc = "d_ack_read") => acks = nrecv
               /\ (~Returned(c) /\ pc = "d_send_cont") => acks = nrecv
               /\ (Returned(c) /\ results[c].ok) => (nrecv >= 1 /\ acks = nrecv + 1)
               /\ acks <= nrecv + 1

C5_Witness ==
    \E c \in 1..Len(results) :
        /\ IsDownload(c) /\ results[c].ok
        /\ nrecv = 2 /\ Cardinality(Writes(c, "ack_w")) = 3

\* C6 as stated: the begin-download request is sent only after an SDB
\* version query has been sent.
C6_Original ==
    \A i \in 1..Len(log) :
        (log[i].ev = "req_w" /\ log[i].op = OpBegin) =>
            \E j \in 1..(i - 1) : log[j].ev = "req_w" /\ log[j].op = OpVersion /\ log[j].ok

\* C6 amended: the first request of download_sbd is the begin-download
\* request (0x31 with DOWNLOAD.SDB) and every later one is a
\* continue-download request (0x32); download_sbd sends no version query
\* (0x34), which only _check_sdb sends.
C6_BeginThenContinue ==
    /\ \A i \in 1..Len(log) :
          (log[i].ev = "req_w" /\ IsDownload(log[i].call)) =>
              IF \E j \in 1..(i - 1) : log[j].ev = "req_w" /\ log[j].call = log[i].call
              THEN log[i].op = OpContinue /\ log[i].total = 25
              ELSE log[i].op = OpBegin /\ log[i].total = 24 + 1 + Len(DownloadSdbName)
    /\ \A i \in 1..Len(log) :
          (log[i].ev = "req_w" /\ log[i].op = OpVersion) => fns[log[i].call] = "_check_sdb"
    /\ (mode = "download" /\ pc = "d_send") =>
          Payload_write(pkt.payload) = <<OpBegin>> \o DownloadSdbName

C6_Witness ==
    \E i, j \in 1..Len(log) :
        /\ i < j /\ log[i].call = log[j].call /\ IsDownload(log[i].call)
        /\ log[i].ev = "req_w" /\ log[i].op = OpBegin /\ log[i].ok
        /\ log[j].ev = "req_w" /\ log[j].op = OpContinue /\ log[j].ok
        /\ ~(\E k \in 1..Len(log) : log[k].op = OpVersion /\ log[k].ev = "req_w")

\* a stuck server: it flags continues = 1 on every chunk, without end
StuckServer == srvTail = "repeat" /\ srvAll[1].cont = 1

\* C7: against a stuck server the download never returns Ok, and it has
\* received at most PktCap + 1 chunks when it returns.
C7_StuckServerFails ==
    StuckServer =>
        /\ \A c \in 1..Len(results) : IsDownload(c) => ~results[c].ok
        /\ nrecv <= PktCap + 1

(***************************************************************************)
(* The Sdb and its handles (sdb.rs 23-146, 148-183, 253-311, 453-480).     *)
(* An Sdb is [sdb_id, type_descr, parameters]; indices into type_descr and *)
(* parameters count from 0 as in the source.  A TypeDescription is         *)
(* [kind, type_size, payload], its payload [type_idx, dims, members,       *)
(* target] holding the ArrayDesc, the StructMembers or the Pointer target. *)
(* A TypeInfo handle is the descr index, a Parameter handle [param, descr].*)
(***************************************************************************)
NoPayload == [type_idx |-> 0, dims |-> <<>>, members |-> <<>>, target |-> 0]

TypeDescription(kind, type_size, payload) ==
    [kind |-> kind, type_size |-> type_size, payload |-> payload]

Scalar(kind, type_size) == TypeDescription(kind, type_size, NoPayload)

ArrayDesc(type_size, type_idx, dims) ==
    TypeDescription("Array", type_size, [NoPayload EXCEPT !.type_idx = type_idx, !.dims = dims])

StructMember(name, type_descr_idx) == [name |-> name, type_descr_idx |-> type_descr_idx]

StructDesc(type_size, members) ==
    TypeDescription("Data", type_size, [NoPayload EXCEPT !.members = members])

PointerDesc(target) ==
    TypeDescription("Pointer", 4, [NoPayload EXCEPT !.target = target])

SdbParam(name, id, type_descr_idx) ==
    [name |-> name, id |-> id, type_descr_idx |-> type_descr_idx]

\* TypeInfo::descr
TypeInfo_descr(sdb, t) == sdb.type_descr[t + 1]

\* TypeInfo::kind
TypeInfo_kind(sdb, t) == TypeInfo_descr(sdb, t).kind

\* TypeInfo::response_len
response_len(sdb, t) == TypeInfo_descr(sdb, t).type_size

\* mutant: the ranges are taken as exclusive of their upper end
array_info_exclusive(sdb, t) ==
    LET arr == TypeInfo_descr(sdb, t).payload
    IN [ty |-> arr.type_idx,
        dims |-> [d \in 1..2 |->
                    IF d <= Len(arr.dims) THEN arr.dims[d][2] - arr.dims[d][1] ELSE 0]]

\* TypeInfo::array_info: the element TypeInfo and dims = [hi - lo + 1; ..],
\* the dimensions the descriptor does not have left at 0
array_info(sdb, t) ==
    LET arr == TypeInfo_descr(sdb, t).payload
    IN [ty |-> arr.type_idx,
        dims |-> [d \in 1..2 |->
                    IF d <= Len(arr.dims) THEN arr.dims[d][2] - arr.dims[d][1] + 1 ELSE 0]]

\* TypeInfo::struct_info: the members as (name, TypeInfo) in declaration order
struct_info(sdb, t) ==
    LET v == TypeInfo_descr(sdb, t).payload.members
    IN [m \in 1..Len(v) |-> [name |-> v[m].name, type_info |-> v[m].type_descr_idx]]

\* Parameter::new
Parameter_new(param, descr) == [param |-> param, descr |-> descr]

\* Parameter::id
Parameter_id(sdb, p) == sdb.parameters[p.param + 1].id

\* Parameter::type_info
Parameter_type_info(p) == p.descr

(***************************************************************************)
(* Value (opc_values.rs 14-26).  One record shape for all variants:        *)
(* [tag, b, i, f, s, items, names, rows].  An Int holds its i64 as the 8   *)
(* bytes of its two's complement, big-endian; a Float the 4 bytes of its   *)
(* bits; a String its code points; Array and Struct their Values in items  *)
(* (and the member names in names); a Matrix its rows, each a sequence.    *)
(***************************************************************************)
NoValue ==
    [tag |-> "none", b |-> FALSE, i |-> <<>>, f |-> <<>>, s |-> <<>>,
     items |-> <<>>, names |-> <<>>, rows |-> <<>>]

Value_Bool(b) == [NoValue EXCEPT !.tag = "Bool", !.b = b]
Value_Int(i) == [NoValue EXCEPT !.tag = "Int", !.i = i]
Value_Float(f) == [NoValue EXCEPT !.tag = "Float", !.f = f]
Value_String(s) == [NoValue EXCEPT !.tag = "String", !.s = s]
Value_Array(v) == [NoValue EXCEPT !.tag = "Array", !.items = v]
Value_Matrix(outer) == [NoValue EXCEPT !.tag = "Matrix", !.rows = outer]
Value_Struct(names, v) == [NoValue EXCEPT !.tag = "Struct", !.items = v, !.names = names]

\* `x as i64` of an unsigned (zero extension) or signed (sign extension)
\* integer given by its big-endian bytes
as_i64(bytes, signed) ==
    LET fill == IF signed /\ bytes[1] >= 128 THEN 255 ELSE 0
    IN [k \in 1..(8 - Len(bytes)) |-> fill] \o bytes

\* size_of of the Rust integer an int!() arm reads
SizeOfKind(kind) ==
    CASE kind = "Byte" -> 1
      [] kind \in {"Int", "Word", "Uint"} -> 2
      [] kind \in {"Dword", "Udint", "Pointer", "Time"} -> 4

\* the code points of the bytes 0x80..0x9F in Windows-1252 (the five bytes
\* the code page leaves undefined decode to the C1 control of the same number)
CP1252_High ==
    <<8364, 129, 8218, 402, 8222, 8230, 8224, 8225, 710, 8240, 352, 8249, 338, 141, 381, 143,
      144, 8216, 8217, 8220, 8221, 8226, 8211, 8212, 732, 8482, 353, 8250, 339, 157, 382, 376>>

\* CP1252.decode: ASCII and 0xA0..0xFF map to the code point of the same
\* number, 0x80..0x9F through the table
CP1252_decode(bytes) ==
    [k \in 1..Len(bytes) |->
        IF bytes[k] >= 128 /\ bytes[k] <= 159 THEN CP1252_High[bytes[k] - 127] ELSE bytes[k]]

\* mutant: the position of the first NUL of the trailing run of NULs
NulPos_trailing(v) ==
    IF v # <<>> /\ v[Len(v)] = 0
    THEN CHOOSE k \in 1..Len(v) : (\A j \in k..Len(v) : v[j] = 0) /\ (k = 1 \/ v[k - 1] # 0)
    ELSE 0

\* v.iter().position(|&b| b == 0), 0 when there is none
NulPos(v) ==
    IF \E k \in 1..Len(v) : v[k] = 0
    THEN CHOOSE k \in 1..Len(v) : v[k] = 0 /\ \A j \in 1..(k - 1) : v[j] # 0
    ELSE 0

(***************************************************************************)
(* Value::parse_param (opc_values.rs 69-143).  A result is                 *)
(* [ok, panic, val, pos, reads]: pos the cursor after the value, reads the *)
(* leaves read (scalars and Strings), each [kind, start_pos, at, size]:     *)
(* the cursor was at start_pos and size bytes were read at position at.    *)
(***************************************************************************)
ParseResult(ok, panic, val, pos, reads) ==
    [ok |-> ok, panic |-> panic, val |-> val, pos |-> pos, reads |-> reads]

Leaf(kind, start_pos, at, size) ==
    [kind |-> kind, start_pos |-> start_pos, at |-> at, size |-> size]

\* mutant: the cursor is never moved for alignment
AlignedPos_none(read_len, start_pos) == start_pos

\* `if read_len > 1 && start_pos & 1 == 1 { cur.set_position(start_pos + 1) }`
AlignedPos(read_len, start_pos) ==
    IF read_len > 1 /\ start_pos % 2 = 1 THEN start_pos + 1 ELSE start_pos

\* cur.read_be::<T>() of size bytes at position at: UnexpectedEof when the
\* slice ends before
ReadLeaf(buf, kind, start_pos, at, size, val) ==
    IF at + size > Len(buf)
    THEN ParseResult(FALSE, FALSE, NoValue, at, <<>>)
    ELSE ParseResult(TRUE, FALSE, val, at + size, <<Leaf(kind, start_pos, at, size)>>)

\* the int!($ty) macro
int(sdb, buf, start_pos, t, signed) ==
    LET kind == TypeInfo_kind(sdb, t)
        read_len == response_len(sdb, t)
        at == AlignedPos(read_len, start_pos)
    IN IF read_len # SizeOfKind(kind)
       THEN ParseResult(FALSE, TRUE, NoValue, start_pos, <<>>)
       ELSE ReadLeaf(buf, kind, start_pos, at, read_len,
                     IF at + read_len > Len(buf) THEN NoValue
                     ELSE Value_Int(as_i64(SubSeq(buf, at + 1, at + read_len), signed)))

RECURSIVE parse_param(_, _, _, _)
RECURSIVE parse_seq(_, _, _, _)

\* the loops of the Array and Data arms: the TypeInfos ts parsed one after
\* the other on the same cursor, stopping at the first failure
parse_seq(sdb, buf, pos, ts) ==
    IF ts = <<>> THEN ParseResult(TRUE, FALSE, <<>>, pos, <<>>)
    ELSE LET first == parse_param(sdb, buf, pos, Head(ts))
         IN IF ~first.ok THEN first
            ELSE LET rest == parse_seq(sdb, buf, first.pos, Tail(ts))
                 IN IF ~rest.ok THEN rest
                    ELSE ParseResult(TRUE, FALSE, <<first.val>> \o rest.val, rest.pos,
                                     first.reads \o rest.reads)

parse_param(sdb, buf, start_pos, t) ==
    LET kind == TypeInfo_kind(sdb, t)
    IN CASE kind = "Array" ->
              LET info == array_info(sdb, t)
                  a == info.dims[1]
                  b == info.dims[2]
                  n == IF b = 0 THEN a ELSE a * b
                  all == parse_seq(sdb, buf, start_pos, [k \in 1..n |-> info.ty])
              IN IF ~all.ok THEN all
                 ELSE IF b = 0 THEN [all EXCEPT !.val = Value_Array(all.val)]
                 ELSE [all EXCEPT !.val =
                          Value_Matrix([row \in 1..a |->
                                          SubSeq(all.val, (row - 1) * b + 1, row * b)])]
         [] kind = "Data" ->
              LET info == struct_info(sdb, t)
                  all == parse_seq(sdb, buf, start_pos,
                                   [m \in 1..Len(info) |-> info[m].type_info])
              IN IF ~all.ok THEN all
                 ELSE [all EXCEPT !.val =
                          Value_Struct([m \in 1..Len(info) |-> info[m].name], all.val)]
         [] kind = "Bool" ->
              ReadLeaf(buf, kind, start_pos, start_pos, 1,
                       IF start_pos + 1 > Len(buf) THEN NoValue
                       ELSE Value_Bool(buf[start_pos + 1] # 0))
         [] kind = "Int" -> int(sdb, buf, start_pos, t, TRUE)
         [] kind \in {"Byte", "Word", "Uint", "Dword", "Udint", "Pointer", "Time"} ->
              int(sdb, buf, start_pos, t, FALSE)
         [] kind = "Real" ->
              LET at == IF start_pos % 2 = 1 THEN start_pos + 1 ELSE start_pos
              IN ReadLeaf(buf, kind, start_pos, at, 4,
                          IF at + 4 > Len(buf) THEN NoValue
                          ELSE Value_Float(SubSeq(buf, at + 1, at + 4)))
         [] kind = "String" ->
              LET len == response_len(sdb, t)
              IN IF start_pos + len > Len(buf)
                 THEN ParseResult(FALSE, FALSE, NoValue, start_pos, <<>>)
                 ELSE LET v == SubSeq(buf, start_pos + 1, start_pos + len)
                          nul_pos == NulPos(v)
                          kept == IF nul_pos = 0 THEN v ELSE SubSeq(v, 1, nul_pos - 1)
                      IN ParseResult(TRUE, FALSE, Value_String(CP1252_decode(kept)),
                                     start_pos + len,
                                     <<Leaf(kind, start_pos, start_pos, len)>>)

\* Value::parse: a fresh Cursor at 0 on the data
Value_parse(sdb, bytes, t) == parse_param(sdb, bytes, 0, t)

\* mutant: the Value is parsed on the reader of the whole response
Value_read_shared(sdb, body, pos, t) == parse_param(sdb, body, pos, t)

\* impl BinRead for Value: read_exact of response_len bytes into a new
\* buffer, then Value::parse of that buffer.  pos is the reader's position
\* after the call.
Value_read(sdb, body, pos, t) ==
    LET len == response_len(sdb, t)
    IN IF pos + len > Len(body)
       THEN ParseResult(FALSE, FALSE, NoValue, pos, <<>>)
       ELSE [Value_parse(sdb, SubSeq(body, pos + 1, pos + len), t) EXCEPT !.pos = pos + len]

(***************************************************************************)
(* EncodeOpcValue (opc_values.rs 176-239).  A result is [ok, panic, bytes].*)
(***************************************************************************)
EncResult(ok, panic, bytes) == [ok |-> ok, panic |-> panic, bytes |-> bytes]

EncErr == EncResult(FALSE, FALSE, <<>>)

\* todo!() / unimplemented!()
EncPanic == EncResult(FALSE, TRUE, <<>>)

\* mutant: `self as $ty`, the low bytes whatever the high bytes hold
try_into_wrapping(x, size, signed) == EncResult(TRUE, FALSE, SubSeq(x, 9 - size, 8))

\* the try_into!($ty) macro on an i64: the conversion succeeds when the
\* bytes above the destination width are the extension of the destination's
\* value, and x.to_be_bytes() are then the low bytes
try_into(x, size, signed) ==
    LET lo == SubSeq(x, 9 - size, 8)
        fill == IF signed /\ lo[1] >= 128 THEN 255 ELSE 0
    IN IF \A k \in 1..(8 - size) : x[k] = fill
       THEN EncResult(TRUE, FALSE, lo)
       ELSE EncErr

\* impl EncodeOpcValue for i64 (impl_enc_int!)
opc_encode_int(sdb, x, desc) ==
    LET kind == TypeInfo_kind(sdb, desc)
    IN CASE kind = "Byte" -> try_into(x, 1, FALSE)
         [] kind = "Int" -> try_into(x, 2, TRUE)
         [] kind \in {"Word", "Uint"} -> try_into(x, 2, FALSE)
         [] kind \in {"Dword", "Udint"} -> try_into(x, 4, FALSE)
         [] OTHER -> EncErr

\* mutant: a slice longer than the parameter is cut to response_len
opc_encode_bytes_truncating(sdb, bytes, desc) ==
    LET len == response_len(sdb, desc)
    IN IF TypeInfo_kind(sdb, desc) # "String" THEN EncErr
       ELSE EncResult(TRUE, FALSE, [k \in 1..len |-> IF k <= Len(bytes) THEN bytes[k] ELSE 0])

\* impl EncodeOpcValue for &[u8]: Vec::from(self), resize(response_len, 0)
opc_encode_bytes(sdb, bytes, desc) ==
    LET len == response_len(sdb, desc)
    IN IF TypeInfo_kind(sdb, desc) # "String" THEN EncErr
       ELSE IF Len(bytes) > len THEN EncErr
       ELSE EncResult(TRUE, FALSE, [k \in 1..len |-> IF k <= Len(bytes) THEN bytes[k] ELSE 0])

\* the byte of a code point in Windows-1252, -1 when it has none
CP1252_byte(cp) ==
    IF cp <= 127 \/ (cp >= 160 /\ cp <= 255) THEN cp
    ELSE IF \E k \in 1..32 : CP1252_High[k] = cp
    THEN 127 + (CHOOSE k \in 1..32 : CP1252_High[k] = cp)
    ELSE -1

\* CP1252.encode: an error when a character is not in the code page
CP1252_encode(str) ==
    IF \A k \in 1..Len(str) : CP1252_byte(str[k]) >= 0
    THEN EncResult(TRUE, FALSE, [k \in 1..Len(str) |-> CP1252_byte(str[k])])
    ELSE EncErr

\* mutant: a Float is written as the big-endian bytes of its bits
opc_encode_float_be(sdb, v, desc) ==
    IF TypeInfo_kind(sdb, desc) = "Real" THEN EncResult(TRUE, FALSE, v.f) ELSE EncErr

\* the Value::Float arm: todo!("Implement OPC value encoding for f32.")
opc_encode_float(sdb, v, desc) == EncPanic

\* impl EncodeOpcValue for &Value
opc_encode(sdb, v, desc) ==
    CASE v.tag = "Bool" /\ TypeInfo_kind(sdb, desc) = "Bool" ->
            EncResult(TRUE, FALSE, <<IF v.b THEN 1 ELSE 0>>)
      [] v.tag = "Int" -> opc_encode_int(sdb, v.i, desc)
      [] v.tag = "Float" -> opc_encode_float(sdb, v, desc)
      [] v.tag = "String" ->
            LET enc == CP1252_encode(v.s)
            IN IF enc.ok THEN opc_encode_bytes(sdb, enc.bytes, desc) ELSE EncErr
      [] OTHER -> EncErr

(***************************************************************************)
(* Value::from_str (opc_values.rs 145-159).  A text is the sequence of its *)
(* code points; a result is [ok, panic, val].                              *)
(***************************************************************************)
StrResult(ok, panic, val) == [ok |-> ok, panic |-> panic, val |-> val]

IsDigit(c) == c >= 48 /\ c <= 57

RECURSIVE MulAdd(_, _, _)
\* bytes * m + c on a big-endian byte sequence: [bytes, carry]
MulAdd(bytes, m, c) ==
    IF bytes = <<>> THEN [bytes |-> <<>>, carry |-> c]
    ELSE LET v == bytes[Len(bytes)] * m + c
             rest == MulAdd(SubSeq(bytes, 1, Len(bytes) - 1), m, v \div 256)
         IN [bytes |-> Append(rest.bytes, v % 256), carry |-> rest.carry]

RECURSIVE Magnitude(_, _)
\* the decimal digits accumulated into 8 bytes: [bytes, carry], carry > 0
\* once the number has left 64 bits
Magnitude(digits, acc) ==
    IF digits = <<>> THEN acc
    ELSE LET step == MulAdd(acc.bytes, 10, Head(digits) - 48)
         IN Magnitude(Tail(digits),
                      [bytes |-> step.bytes, carry |-> acc.carry + step.carry])

Zero8 == <<0, 0, 0, 0, 0, 0, 0, 0>>

\* str::parse::<i64>: an optional sign, at least one digit, only digits,
\* the value within i64: [ok, i]
parse_i64(text) ==
    LET signed == text # <<>> /\ text[1] \in {43, 45}
        neg == text # <<>> /\ text[1] = 45
        digits == IF signed THEN Tail(text) ELSE text
        mag == Magnitude(digits, [bytes |-> Zero8, carry |-> 0])
        top == mag.bytes[1]
        low0 == \A k \in 2..8 : mag.bytes[k] = 0
    IN IF digits = <<>> \/ \E k \in 1..Len(digits) : ~IsDigit(digits[k])
       THEN [ok |-> FALSE, i |-> Zero8]
       ELSE IF mag.carry > 0 \/ (~neg /\ top >= 128)
                             \/ (neg /\ top >= 128 /\ ~(top = 128 /\ low0))
       THEN [ok |-> FALSE, i |-> Zero8]
       ELSE IF neg
       THEN [ok |-> TRUE,
             i |-> MulAdd([k \in 1..8 |-> 255 - mag.bytes[k]], 1, 1).bytes]
       ELSE [ok |-> TRUE, i |-> mag.bytes]

\* str::parse::<bool>: exactly "true" or "false"
parse_bool(text) ==
    IF text = <<116, 114, 117, 101>> THEN [ok |-> TRUE, b |-> TRUE]
    ELSE IF text = <<102, 97, 108, 115, 101>> THEN [ok |-> TRUE, b |-> FALSE]
    ELSE [ok |-> FALSE, b |-> FALSE]

RECURSIVE Log2(_)
Log2(n) == IF n < 2 THEN 0 ELSE 1 + Log2(n \div 2)

RECURSIVE DecimalValue(_)
DecimalValue(digits) ==
    IF digits = <<>> THEN 0
    ELSE DecimalValue(SubSeq(digits, 1, Len(digits) - 1)) * 10 + (digits[Len(digits)] - 48)

\* the f32 bits of the integer n below 2^24 with the sign bit neg
F32Bits(neg, n) ==
    LET s == IF neg THEN 128 ELSE 0
        e == Log2(n)
        E == e + 127
        mant == (n - 2 ^ e) * 2 ^ (23 - e)
    IN IF n = 0 THEN <<s, 0, 0, 0>>
       ELSE <<s + E \div 2, (E % 2) * 128 + mant \div 65536, (mant \div 256) % 256, mant % 256>>

\* str::parse::<f32> on the texts of the model: an optional sign and up to
\* seven digits (every such integer is an f32); other texts of the model's
\* alphabet are not numbers: [ok, f]
parse_f32(text) ==
    LET signed == text # <<>> /\ text[1] \in {43, 45}
        neg == text # <<>> /\ text[1] = 45
        digits == IF signed THEN Tail(text) ELSE text
    IN IF digits = <<>> \/ \E k \in 1..Len(digits) : ~IsDigit(digits[k])
       THEN [ok |-> FALSE, f |-> <<>>]
       ELSE [ok |-> TRUE, f |-> F32Bits(neg, DecimalValue(digits))]

\* mutant: the Value is returned without the trial encode
from_str_check_skipped(sdb, val, desc) == StrResult(TRUE, FALSE, val)

\* `val.opc_encode(desc)?; Ok(val)`
from_str_check(sdb, val, desc) ==
    LET enc == opc_encode(sdb, val, desc)
    IN IF enc.panic THEN StrResult(FALSE, TRUE, NoValue)
       ELSE IF ~enc.ok THEN StrResult(FALSE, FALSE, NoValue)
       ELSE StrResult(TRUE, FALSE, val)

\* Value::from_str
from_str(sdb, text, desc) ==
    LET kind == TypeInfo_kind(sdb, desc)
    IN CASE kind = "Bool" ->
              LET b == parse_bool(text)
              IN IF b.ok THEN from_str_check(sdb, Value_Bool(b.b), desc)
                 ELSE StrResult(FALSE, FALSE, NoValue)
         [] kind = "Real" ->
              LET f == parse_f32(text)
              IN IF f.ok THEN from_str_check(sdb, Value_Float(f.f), desc)
                 ELSE StrResult(FALSE, FALSE, NoValue)
         [] kind \in {"Time", "Array", "Data", "Pointer"} -> StrResult(FALSE, TRUE, NoValue)
         [] kind = "String" -> from_str_check(sdb, Value_String(text), desc)
         [] OTHER ->
              LET i == parse_i64(text)
              IN IF i.ok THEN from_str_check(sdb, Value_Int(i.i), desc)
                 ELSE StrResult(FALSE, FALSE, NoValue)

(***************************************************************************)
(* The Sdb the model loads: one descriptor of every TypeKind with the size *)
(* of its Rust type, two String widths, a one- and a two-dimensional       *)
(* Array, Structs that put every scalar behind a 1-byte member (odd        *)
(* offsets) and at even offsets, and a Struct with a pad byte at its end.  *)
(***************************************************************************)
TypeIdx == [Bool |-> 0,
            Byte |-> 1,
            Int |-> 2,
            Word |-> 3,
            Uint |-> 4,
            Dword |-> 5,
            Udint |-> 6,
            Pointer |-> 7,
            Time |-> 8,
            Real |-> 9,
            String2 |-> 10,
            String16 |-> 11,
            Array |-> 12,
            Matrix |-> 13,
            ByteWord |-> 14,
            ArrayOfStruct |-> 15,
            Odd |-> 16,
            Even |-> 17,
            WordByte |-> 18]

OddMembers ==
    <<StructMember("b0", TypeIdx.Byte), StructMember("i", TypeIdx.Int),
      StructMember("b1", TypeIdx.Bool), StructMember("w", TypeIdx.Word),
      StructMember("b2", TypeIdx.Byte), StructMember("u", TypeIdx.Uint),
      StructMember("b3", TypeIdx.Byte), StructMember("d", TypeIdx.Dword),
      StructMember("b4", TypeIdx.Byte), StructMember("ud", TypeIdx.Udint),
      StructMember("b5", TypeIdx.Byte), StructMember("p", TypeIdx.Pointer),
      StructMember("b6", TypeIdx.Byte), StructMember("t", TypeIdx.Time),
      StructMember("b7", TypeIdx.Byte), StructMember("r", TypeIdx.Real),
      StructMember("b8", TypeIdx.Byte), StructMember("s", TypeIdx.String2),
      StructMember("a", TypeIdx.Array)>>

EvenMembers ==
    <<StructMember("w", TypeIdx.Word), StructMember("i", TypeIdx.Int), StructMember("d", TypeIdx.Dword),
      StructMember("r", TypeIdx.Real), StructMember("t", TypeIdx.Time), StructMember("b", TypeIdx.Byte),
      StructMember("c", TypeIdx.Bool)>>

TypeTable ==
    <<Scalar("Bool", 1), Scalar("Byte", 1), Scalar("Int", 2), Scalar("Word", 2),
      Scalar("Uint", 2), Scalar("Dword", 4), Scalar("Udint", 4), PointerDesc(TypeIdx.Byte),
      Scalar("Time", 4), Scalar("Real", 4), Scalar("String", 2), Scalar("String", 16),
      ArrayDesc(4, TypeIdx.Word, <<<<2, 3>>>>),
      ArrayDesc(6, TypeIdx.Byte, <<<<1, 2>>, <<3, 5>>>>),
      StructDesc(4, <<StructMember("b", TypeIdx.Byte), StructMember("w", TypeIdx.Word)>>),
      ArrayDesc(8, TypeIdx.ByteWord, <<<<0, 1>>>>),
      StructDesc(50, OddMembers),
      StructDesc(18, EvenMembers),
      StructDesc(4, <<StructMember("w", TypeIdx.Word), StructMember("b", TypeIdx.Byte)>>)>>

Params ==
    <<SdbParam(".Pressure", S3ParamId, TypeIdx.Real),
      SdbParam(".Gauge", S3ParamId - 4, TypeIdx.ByteWord),
      SdbParam(".CockpitUser", S3ParamId + 4, TypeIdx.String2),
      SdbParam(".Count", S3ParamId + 8, TypeIdx.Word),
      SdbParam(".Flag", S3ParamId + 12, TypeIdx.Byte),
      SdbParam(".Status", S3ParamId + 16, TypeIdx.WordByte)>>

SdbFixture == [sdb_id |-> S3SdbId, type_descr |-> TypeTable, parameters |-> Params]

Types == 0..(Len(TypeTable) - 1)

ScalarKinds == {"Bool", "Byte", "Int", "Word", "Uint", "Dword", "Udint", "Time", "Real"}

(***************************************************************************)
(* SpecVal: Value::parse, opc_encode and Value::from_str on bounded inputs.*)
(***************************************************************************)
MaxBuf == 3         \* bytes of an enumerated buffer to decode / slice to encode
MaxStr == 2         \* characters of an enumerated Value::String
MaxText == 3        \* characters of an enumerated text handed to from_str

Bytes4 == {0, 65, 128, 255}

\* a buffer of n bytes that differ from place to place
Pattern(seed, n) == [k \in 1..n |-> (seed * 37 + k * 91) % 256]

AlignExample == <<170, 0, 255, 18, 52, 0>>

User1234 == <<85, 115, 101, 114, 49, 50, 51, 52>>

ParseBufs(t) ==
    SeqsUpTo(Bytes4, MaxBuf)
    \cup {Pattern(seed, response_len(SdbFixture, t) - short) : seed \in 0..2, short \in {0, 1}}
    \cup {AlignExample, User1234 \o Zero8}

\* an i64 from its four 16-bit limbs
I64(a, b, c, d) == BE(a, 2) \o BE(b, 2) \o BE(c, 2) \o BE(d, 2)

Ints ==
    {I64(0, 0, 0, n) : n \in {0, 1, 127, 128, 255, 256, 1000, 32767, 32768, 65535}}
    \cup {I64(0, 0, 1, 0), I64(0, 0, 32767, 65535), I64(0, 0, 32768, 0),
          I64(0, 0, 65535, 65535), I64(0, 1, 0, 0), I64(32767, 65535, 65535, 65535)}
    \cup {I64(65535, 65535, 65535, n) : n \in {65535, 65408, 65407, 32768, 32767}}
    \cup {I64(65535, 65535, 0, 0), I64(32768, 0, 0, 0)}

Floats == {<<63, 192, 0, 0>>, <<0, 0, 0, 0>>, <<64, 73, 15, 219>>, <<255, 128, 0, 0>>}

Chars == {0, 65, 8364, 1046}

Strings == SeqsUpTo(Chars, MaxStr) \cup {User1234, User1234 \o User1234 \o <<33>>}

Values ==
    {Value_Bool(b) : b \in BOOLEAN}
    \cup {Value_Int(i) : i \in Ints}
    \cup {Value_Float(f) : f \in Floats}
    \cup {Value_String(str) : str \in Strings}
    \cup {Value_Array(<<Value_Int(Zero8)>>), Value_Struct(<<"b">>, <<Value_Bool(TRUE)>>),
          Value_Matrix(<<<<Value_Int(Zero8)>>>>)}

Slices == SeqsUpTo(Bytes4, MaxBuf) \cup {User1234, User1234 \o User1234 \o <<33>>, <<65, 0, 66>>}

TextChars == {43, 45, 48, 50, 120}

TextSamples ==
    {<<116, 114, 117, 101>>, <<102, 97, 108, 115, 101>>, <<84, 114, 117, 101>>,
     <<50, 53, 53>>, <<50, 53, 54>>, <<51, 50, 55, 54, 55>>, <<51, 50, 55, 54, 56>>,
     <<45, 51, 50, 55, 54, 56>>, <<45, 51, 50, 55, 54, 57>>,
     <<54, 53, 53, 51, 53>>, <<54, 53, 53, 51, 54>>,
     <<52, 50, 57, 52, 57, 54, 55, 50, 57, 53>>, <<52, 50, 57, 52, 57, 54, 55, 50, 57, 54>>,
     <<57, 50, 50, 51, 51, 55, 50, 48, 51, 54, 56, 53, 52, 55, 55, 53, 56, 48, 55>>,
     <<57, 50, 50, 51, 51, 55, 50, 48, 51, 54, 56, 53, 52, 55, 55, 53, 56, 48, 56>>,
     <<45, 57, 50, 50, 51, 51, 55, 50, 48, 51, 54, 56, 53, 52, 55, 55, 53, 56, 48, 56>>,
     User1234, <<1046>>, <<8364>>}

\* the texts handed to from_str for type t (for Real the ones parse_f32 models)
Texts(t) ==
    LET all == SeqsUpTo(TextChars, MaxText) \cup TextSamples
    IN IF TypeInfo_kind(SdbFixture, t) = "Real" THEN {x \in all : Len(x) <= 7} ELSE all

NoArg == [bytes |-> <<>>, val |-> NoValue, text |-> <<>>]

NoParse == ParseResult(FALSE, FALSE, NoValue, 0, <<>>)

NoRes == [enc |-> EncErr, dec |-> NoParse, str |-> StrResult(FALSE, FALSE, NoValue)]

InitVal ==
    /\ mode = "val"
    /\ FrameIdle /\ ConnIdle /\ DlIdle /\ ReadIdle /\ WriteIdle /\ SdbIdle
    /\ vop \in {"parse", "encode", "encode_bytes", "from_str"}
    /\ vty \in Types
    /\ varg \in CASE vop = "parse" -> {[NoArg EXCEPT !.bytes = b] : b \in ParseBufs(vty)}
                  [] vop = "encode" -> {[NoArg EXCEPT !.val = v] : v \in Values}
                  [] vop = "encode_bytes" -> {[NoArg EXCEPT !.bytes = b] : b \in Slices}
                  [] vop = "from_str" -> {[NoArg EXCEPT !.text = x] : x \in Texts(vty)}
    /\ vres = NoRes
    /\ cpc = "start"

ValUnchanged == UNCHANGED <<mode, frameVars, connVars, dlVars, readVars, writeVars, sdbVars>>

\* Value::parse(data, type_info)
VParse ==
    /\ mode = "val" /\ vop = "parse" /\ cpc = "start"
    /\ vres' = [vres EXCEPT !.dec = Value_parse(SdbFixture, varg.bytes, vty)]
    /\ cpc' = "done"
    /\ UNCHANGED <<vop, vty, varg>> /\ ValUnchanged

\* (&value).opc_encode(type_info)
VEncode ==
    /\ mode = "val" /\ vop = "encode" /\ cpc = "start"
    /\ vres' = [vres EXCEPT !.enc = opc_encode(SdbFixture, varg.val, vty)]
    /\ cpc' = "encoded"
    /\ UNCHANGED <<vop, vty, varg>> /\ ValUnchanged

\* slice.opc_encode(type_info)
VEncodeBytes ==
    /\ mode = "val" /\ vop = "encode_bytes" /\ cpc = "start"
    /\ vres' = [vres EXCEPT !.enc = opc_encode_bytes(SdbFixture, varg.bytes, vty)]
    /\ cpc' = "encoded"
    /\ UNCHANGED <<vop, vty, varg>> /\ ValUnchanged

\* Value::parse of the bytes an encode returned
VDecode ==
    /\ mode = "val" /\ cpc = "encoded" /\ vres.enc.ok
    /\ vres' = [vres EXCEPT !.dec = Value_parse(SdbFixture, vres.enc.bytes, vty)]
    /\ cpc' = "done"
    /\ UNCHANGED <<vop, vty, varg>> /\ ValUnchanged

\* Value::from_str(text, type_info)
VFromStr ==
    /\ mode = "val" /\ vop = "from_str" /\ cpc = "start"
    /\ vres' = [vres EXCEPT !.str = from_str(SdbFixture, varg.text, vty)]
    /\ cpc' = "done"
    /\ UNCHANGED <<vop, vty, varg>> /\ ValUnchanged

NextVal == VParse \/ VEncode \/ VEncodeBytes \/ VDecode \/ VFromStr

SpecVal == InitVal /\ [][NextVal]_vars

(***************************************************************************)
(* Sdb::param_by_name (sdb.rs 228-244): [ok, param].                       *)
(***************************************************************************)
NoParam == [ok |-> FALSE, param |-> Parameter_new(0, 0)]

\* mutant: the last parameter carrying the name is taken
param_by_name_last(sdb, name) ==
    LET found == {k \in 1..Len(sdb.parameters) : sdb.parameters[k].name = name}
    IN IF found = {} THEN NoParam
       ELSE LET k == CHOOSE k \in found : \A j \in found : k >= j
                type_idx == sdb.parameters[k].type_descr_idx
            IN IF type_idx >= Len(sdb.type_descr) THEN NoParam
               ELSE [ok |-> TRUE, param |-> Parameter_new(k - 1, type_idx)]

param_by_name(sdb, name) ==
    LET found == {k \in 1..Len(sdb.parameters) : sdb.parameters[k].name = name}
    IN IF found = {} THEN NoParam
       ELSE LET k == CHOOSE k \in found : \A j \in found : k <= j
                type_idx == sdb.parameters[k].type_descr_idx
            IN IF type_idx >= Len(sdb.type_descr) THEN NoParam
               ELSE [ok |-> TRUE, param |-> Parameter_new(k - 1, type_idx)]

(***************************************************************************)
(* The batched read: ParamQuerySetBuilder, ParamsReadQuery and             *)
(* ParamReadDynResponse (packets.rs 142-179, 242-333).                     *)
(***************************************************************************)
\* mutant: the ReadItems are collected in the reverse order
QuerySet_reversed(sdb, handles) ==
    [k \in 1..Len(handles) |->
        [id |-> Parameter_id(sdb, handles[Len(handles) + 1 - k]),
         response_len |-> response_len(sdb, Parameter_type_info(handles[Len(handles) + 1 - k]))]]

\* what ParamsReadQuery::new reads off each handle of the query set:
\* param.id() and param.type_info().response_len()
QuerySet(sdb, handles) ==
    [k \in 1..Len(handles) |->
        [id |-> Parameter_id(sdb, handles[k]),
         response_len |-> response_len(sdb, Parameter_type_info(handles[k]))]]

\* mutant: the parameters are walked from the last to the first
dyn_param_reversed(params, k) == params[Len(params) + 1 - k]

\* the k-th item of params.iter() in parse_dyn_payload
dyn_param(params, k) == params[k]

\* one turn of the closure of parse_dyn_payload on the reader at pos:
\* u8::read, assert_eq!(one, 1), Value::read_args(reader, param.type_info())
dyn_payload_item(sdb, body, pos, param) ==
    IF pos + 1 > Len(body) THEN ParseResult(FALSE, FALSE, NoValue, pos, <<>>)
    ELSE IF body[pos + 1] # 1 THEN ParseResult(FALSE, TRUE, NoValue, pos + 1, <<>>)
    ELSE Value_read(sdb, body, pos + 1, Parameter_type_info(param))

Names == {".Pressure", ".Gauge", ".CockpitUser", ".Count", ".Flag", ".Status", ".Missing"}

OtherRequests ==
    {PacketCC_new(PayloadParamWrite_new(S3SdbId, <<[param_id |-> S3ParamId, data |-> <<0, 1>>]>>)),
     PacketCC_new(SdbVersionQuery_new), PacketCC_new(SdbDownloadRequest_new),
     PacketCC_new(SdbDownloadContinue), PacketCC_new(InstrumentVersionQuery),
     PacketCC_new(PayloadUnknown_from(<<17>>)), query_download_sdb, query_continue_download}

ResponseHead == BE(0, 2) \o BE(1000, 4)

\* a response body to the read of the handles: for each one a marker byte and
\* the bytes of its value
ResponseBody(handles, markers, seeds) ==
    ResponseHead \o
    Concat([k \in 1..Len(handles) |->
              <<markers[k]>> \o Pattern(seeds[k], response_len(SdbFixture, handles[k].descr))])

\* the bodies the server may answer with: well-formed ones, with and without
\* bytes after the last value, one wrong marker, or cut short
Responses(handles) ==
    LET n == Len(handles)
        good == {ResponseBody(handles, [k \in 1..n |-> 1], sd) : sd \in [1..n -> {0, 1}]}
        badmark == {ResponseBody(handles, [k \in 1..n |-> IF k = j THEN 0 ELSE 1],
                                 [k \in 1..n |-> 0]) : j \in 1..n}
    IN good \cup {b \o <<9, 9>> : b \in good} \cup badmark
       \cup {SubSeq(b, 1, Len(b) - 1) : b \in good} \cup {<<0, 0, 0>>}

InitRead ==
    /\ mode = "read"
    /\ FrameIdle /\ ConnIdle /\ DlIdle /\ ValIdle /\ ReadIdle /\ WriteIdle /\ SdbIdle

ReadUnchanged == UNCHANGED <<mode, rhdr, fpc, pc, log, calls, fns, results, r, rxhdr,
                             ackReply, dlVars, valVars, writeVars, sdbVars>>

\* the calls a builder takes before it is consumed
MaxBuilderCalls == MaxParams + 1

\* the handles a caller obtained from the Sdb and passes to add_param
GivenParams ==
    {param_by_name(SdbFixture, name).param : name \in {".Gauge", ".Count"}}

BuilderCall(fn, name, param) == [fn |-> fn, name |-> name, param |-> param]

\* mutant: a handle the list already holds is not pushed again
ParamQuerySetBuilder_add_unique(list, found) ==
    IF found.ok /\ \A k \in 1..Len(list) : list[k] # found.param
    THEN Append(list, found.param) ELSE list

\* ParamQuerySetBuilder::add: self.0.push(self.1.param_by_name(name)?)
ParamQuerySetBuilder_add(list, found) ==
    IF found.ok THEN Append(list, found.param) ELSE list

\* ParamQuerySetBuilder::add_param: self.0.push(param)
ParamQuerySetBuilder_add_param(list, param) == Append(list, param)

\* ParamQuerySetBuilder::add
RAdd ==
    /\ mode = "read" /\ rpc = "build"
    /\ Len(qset) < MaxParams /\ Len(bcalls) < MaxBuilderCalls
    /\ \E name \in Names :
         /\ qset' = ParamQuerySetBuilder_add(qset, param_by_name(SdbFixture, name))
         /\ bcalls' = Append(bcalls, BuilderCall("add", name, NoParam.param))
    /\ UNCHANGED <<pkt, wbuf, rxbody, rpos, rdata, rpc>> /\ ReadUnchanged

\* ParamQuerySetBuilder::add_param
RAddParam ==
    /\ mode = "read" /\ rpc = "build"
    /\ Len(qset) < MaxParams /\ Len(bcalls) < MaxBuilderCalls
    /\ \E param \in GivenParams :
         /\ qset' = ParamQuerySetBuilder_add_param(qset, param)
         /\ bcalls' = Append(bcalls, BuilderCall("add_param", "", param))
    /\ UNCHANGED <<pkt, wbuf, rxbody, rpos, rdata, rpc>> /\ ReadUnchanged

\* ParamQuerySetBuilder::into_query_packet; the builder is consumed
RBuild ==
    /\ mode = "read" /\ rpc = "build"
    /\ pkt' = into_query_packet(SdbFixture.sdb_id, QuerySet(SdbFixture, qset))
    /\ rpc' = "built"
    /\ bcalls' = <<>>
    /\ UNCHANGED <<wbuf, rxbody, qset, rpos, rdata>> /\ ReadUnchanged

\* a request of another kind: PacketCC::new(payload)
ROther ==
    /\ mode = "read" /\ rpc = "build" /\ qset = <<>>
    /\ pkt' \in OtherRequests
    /\ rpc' = "other"
    /\ UNCHANGED <<wbuf, rxbody, qset, bcalls, rpos, rdata>> /\ ReadUnchanged

\* Connection::send: the frame written into the send buffer
RSend ==
    /\ mode = "read" /\ rpc \in {"built", "other"}
    /\ wbuf' = SendBuffer(pkt).buf
    /\ rpc' = IF rpc = "built" THEN "sent" ELSE "othersent"
    /\ UNCHANGED <<pkt, rxbody, qset, bcalls, rpos, rdata>> /\ ReadUnchanged

\* receive_response_args: the body of the response has been read
RRecv ==
    /\ mode = "read" /\ rpc = "sent"
    /\ rxbody' \in Responses(qset)
    /\ rpos' = 0 /\ rdata' = <<>>
    /\ rpc' = "head"
    /\ UNCHANGED <<pkt, wbuf, qset, bcalls>> /\ ReadUnchanged

\* ParamReadDynResponse: error_code u16, timestamp u32
RParseHead ==
    /\ mode = "read" /\ rpc = "head"
    /\ IF Len(rxbody) < 6 THEN rpc' = "err" /\ rpos' = rpos
       ELSE rpc' = "params" /\ rpos' = 6
    /\ UNCHANGED <<pkt, wbuf, rxbody, qset, bcalls, rdata>> /\ ReadUnchanged

\* parse_dyn_payload: the closure applied to the next parameter; collect()
\* stops at the first error
RParseParam ==
    /\ mode = "read" /\ rpc = "params" /\ Len(rdata) < Len(qset)
    /\ LET item == dyn_payload_item(SdbFixture, rxbody, rpos, dyn_param(qset, Len(rdata) + 1))
       IN IF item.panic THEN rpc' = "panic" /\ rpos' = item.pos /\ rdata' = rdata
          ELSE IF ~item.ok THEN rpc' = "err" /\ rpos' = item.pos /\ rdata' = rdata
          ELSE /\ rpc' = rpc /\ rpos' = item.pos
               /\ rdata' = Append(rdata, [from |-> rpos, to |-> item.pos,
                                          val |-> item.val, reads |-> item.reads])
    /\ UNCHANGED <<pkt, wbuf, rxbody, qset, bcalls>> /\ ReadUnchanged

\* the end of the parse: data collected, the rest of the body goes to tail
RFinish ==
    /\ mode = "read" /\ rpc = "params" /\ Len(rdata) = Len(qset)
    /\ rpc' = "done"
    /\ UNCHANGED <<pkt, wbuf, rxbody, qset, bcalls, rpos, rdata>> /\ ReadUnchanged

\* query_response_args: receive_response_args has returned (a response or
\* an error), `self.send_66_ack()?` writes the ack.  A parse that panicked
\* never returns to it.
RAck ==
    /\ mode = "read" /\ rpc \in {"done", "err"} /\ log = <<>>
    /\ log' = <<Event("ack_w", TRUE, Len(Ack66Request), Len(Ack66Request), 0)>>
    /\ UNCHANGED <<mode, frameVars, pc, calls, fns, results, r, rxhdr, rxbody, ackReply,
                   dlVars, codecVars>>

NextRead ==
    RAdd \/ RAddParam \/ RBuild \/ ROther \/ RSend \/ RRecv \/ RParseHead \/ RParseParam \/ RFinish \/ RAck

SpecRead == InitRead /\ [][NextRead]_vars

(***************************************************************************)
(* The batched write: ParamWrite::new and PayloadParamWrite::new           *)
(* (packets.rs 181-223).  The caller that turns the (name, value) pairs of *)
(* a write into one request is not part of the sources at hand; it is      *)
(* modelled as the fallible constructors force it to be written: every     *)
(* item is built with `ParamWrite::new(..)?` before PayloadParamWrite::new *)
(* can take the slice of items, and the packet is handed to Connection::   *)
(* send last.                                                              *)
(***************************************************************************)
\* mutant: an item whose value does not encode is built with no data
ParamWrite_new_lossy(sdb, param, data) ==
    LET enc == opc_encode(sdb, data, Parameter_type_info(param))
    IN [ok |-> TRUE, panic |-> FALSE,
        item |-> [param_id |-> Parameter_id(sdb, param),
                  data |-> IF enc.ok THEN enc.bytes ELSE <<>>]]

\* ParamWrite::new: Ok(Self { param_id: param.id(),
\*                            data: data.opc_encode(&param.type_info())? })
ParamWrite_new(sdb, param, data) ==
    LET enc == opc_encode(sdb, data, Parameter_type_info(param))
    IN [ok |-> enc.ok, panic |-> enc.panic,
        item |-> [param_id |-> Parameter_id(sdb, param), data |-> enc.bytes]]

WriteNames == {".Count", ".Flag", ".CockpitUser", ".Pressure"}

WriteValues ==
    {Value_Int(I64(0, 0, 0, 1)), Value_Int(I64(0, 0, 0, 256)), Value_Int(I64(0, 0, 1, 0)),
     Value_String(<<65>>), Value_String(<<65, 66, 67>>),
     Value_Float(<<63, 192, 0, 0>>), Value_Bool(TRUE)}

\* the writes a caller may ask for: one to MaxParams (name, value) pairs
WriteRequests ==
    UNION {[1..n -> [name : WriteNames, val : WriteValues]] : n \in 1..MaxParams}

InitWrite ==
    /\ mode = "write"
    /\ FrameIdle /\ ConnIdle /\ DlIdle /\ ValIdle /\ ReadIdle /\ SdbIdle
    /\ wreq \in WriteRequests
    /\ witems = <<>>
    /\ wpc = "items"

WriteUnchanged == UNCHANGED <<mode, rhdr, fpc, pc, calls, fns, results, r, rxhdr, rxbody,
                              ackReply, dlVars, valVars, readVars, sdbVars>>

\* the next item of the write: param_by_name(name)?, ParamWrite::new(&param, &value)?
WItem ==
    /\ mode = "write" /\ wpc = "items" /\ Len(witems) < Len(wreq)
    /\ LET req == wreq[Len(witems) + 1]
           found == param_by_name(SdbFixture, req.name)
           new == ParamWrite_new(SdbFixture, found.param, req.val)
       IN IF ~found.ok THEN wpc' = "err" /\ witems' = witems
          ELSE IF new.panic THEN wpc' = "panic" /\ witems' = witems
          ELSE IF ~new.ok THEN wpc' = "err" /\ witems' = witems
          ELSE wpc' = wpc /\ witems' = Append(witems, new.item)
    /\ UNCHANGED <<pkt, wbuf, log, wreq>> /\ WriteUnchanged

\* PacketCC::new(PayloadParamWrite::new(sdb, &items))
WBuild ==
    /\ mode = "write" /\ wpc = "items" /\ Len(witems) = Len(wreq)
    /\ pkt' = PacketCC_new(PayloadParamWrite_new(SdbFixture.sdb_id, witems))
    /\ wpc' = "built"
    /\ UNCHANGED <<wbuf, log, wreq, witems>> /\ WriteUnchanged

\* Connection::send: the frame is built in buf, then stream.write_all(buf),
\* which may fail after a part of the frame
WSend ==
    /\ mode = "write" /\ wpc = "built"
    /\ LET buf == SendBuffer(pkt).buf
       IN /\ wbuf' = buf
          /\ \E ok \in BOOLEAN :
               /\ log' = Append(log, Event("req_w", ok, IF ok THEN Len(buf) ELSE Len(buf) - 1,
                                           Len(buf), buf[25]))
               /\ wpc' = IF ok THEN "sent" ELSE "senderr"
    /\ UNCHANGED <<pkt, wreq, witems>> /\ WriteUnchanged

NextWrite == WItem \/ WBuild \/ WSend

SpecWrite == InitWrite /\ [][NextWrite]_vars

(***************************************************************************)
(* Sdb::read (sdb.rs 148-183, 186-205, 253-346, 453-480): the derived      *)
(* BinRead of the SDB file.  The file is modelled as the sequence of its   *)
(* fields in file order, a field being [n, s]: a little-endian integer n   *)
(* or an SdbStr s.  The reader takes the fields one after the other,       *)
(* checks the magic numbers and the enum values, and stores the indices as *)
(* it finds them.  A result is [ok, val, pos].                             *)
(***************************************************************************)
Num(n) == [n |-> n, s |-> ""]

Str(str) == [n |-> 0, s |-> str]

ReadFail == [ok |-> FALSE, val |-> <<>>, pos |-> 0]

ReadOk(val, pos) == [ok |-> TRUE, val |-> val, pos |-> pos]

\* the fields pos .. pos + n - 1 lie inside the file
Has(blob, pos, n) == pos + n - 1 <= Len(blob)

\* #[br(repr(u32))] enum TypeKind
KindCodes ==
    <<<<"Bool", 0>>, <<"Int", 1>>, <<"Byte", 2>>, <<"Word", 3>>, <<"Dword", 5>>,
      <<"Real", 6>>, <<"Time", 7>>, <<"String", 8>>, <<"Array", 9>>, <<"Data", 11>>,
      <<"Uint", 16>>, <<"Udint", 17>>, <<"Pointer", 23>>>>

KindCode(kind) == KindCodes[CHOOSE k \in 1..Len(KindCodes) : KindCodes[k][1] = kind][2]

\* TypeKind::read: "" when the number is no variant
TypeKind_read(code) ==
    IF \E k \in 1..Len(KindCodes) : KindCodes[k][2] = code
    THEN KindCodes[CHOOSE k \in 1..Len(KindCodes) : KindCodes[k][2] = code][1]
    ELSE ""

\* #[br(repr(u16))] enum AccessMode: Read 0x72, Write 0xFF, ReadWrite 0x62
AccessModes == {114, 255, 98}

RECURSIVE dims_read(_, _, _)
\* #[br(count = array_dim)] dims: Vec<(u32, u32)>
dims_read(blob, pos, count) ==
    IF count = 0 THEN ReadOk(<<>>, pos)
    ELSE IF ~Has(blob, pos, 2) THEN ReadFail
    ELSE LET rest == dims_read(blob, pos + 2, count - 1)
         IN IF ~rest.ok THEN ReadFail
            ELSE ReadOk(<<<<blob[pos].n, blob[pos + 1].n>>>> \o rest.val, rest.pos)

\* struct ArrayDesc: type_idx, array_dim, dims
ArrayDesc_read(blob, pos, type_size) ==
    IF ~Has(blob, pos, 2) THEN ReadFail
    ELSE LET dims == dims_read(blob, pos + 2, blob[pos + 1].n)
         IN IF ~dims.ok THEN ReadFail
            ELSE ReadOk(ArrayDesc(type_size, blob[pos].n, dims.val), dims.pos)

\* struct StructMember: magic 5, len, type_descr_idx, i[2], id_offset, name
StructMember_read(blob, pos) ==
    IF ~Has(blob, pos, 7) \/ blob[pos].n # 5 THEN ReadFail
    ELSE ReadOk(StructMember(blob[pos + 6].s, blob[pos + 2].n), pos + 7)

RECURSIVE members_read(_, _, _)
\* Vec::<StructMember>::read_options with VecArgs { count }
members_read(blob, pos, count) ==
    IF count = 0 THEN ReadOk(<<>>, pos)
    ELSE LET first == StructMember_read(blob, pos)
         IN IF ~first.ok THEN ReadFail
            ELSE LET rest == members_read(blob, first.pos, count - 1)
                 IN IF ~rest.ok THEN ReadFail
                    ELSE ReadOk(<<first.val>> \o rest.val, rest.pos)

\* TypeDescPayload::read_options, by kind
TypeDescPayload_read(blob, pos, kind, type_size) ==
    CASE kind = "Array" -> ArrayDesc_read(blob, pos, type_size)
      [] kind = "Data" ->
            IF ~Has(blob, pos, 1) THEN ReadFail
            ELSE LET members == members_read(blob, pos + 1, blob[pos].n)
                 IN IF ~members.ok THEN ReadFail
                    ELSE ReadOk(StructDesc(type_size, members.val), members.pos)
      [] kind = "Pointer" ->
            IF ~Has(blob, pos, 1) THEN ReadFail
            ELSE ReadOk(TypeDescription("Pointer", type_size,
                                        [NoPayload EXCEPT !.target = blob[pos].n]), pos + 1)
      [] OTHER -> ReadOk(Scalar(kind, type_size), pos)

\* struct TypeDescription: magic 4, len, kind, type_size, description, payload
TypeDescription_read(blob, pos) ==
    IF ~Has(blob, pos, 5) \/ blob[pos].n # 4 THEN ReadFail
    ELSE LET kind == TypeKind_read(blob[pos + 2].n)
         IN IF kind = "" THEN ReadFail
            ELSE TypeDescPayload_read(blob, pos + 5, kind, blob[pos + 3].n)

RECURSIVE type_descr_read(_, _, _)
\* #[br(count = type_descr_cnt)] type_descr: Vec<TypeDescription>
type_descr_read(blob, pos, left) ==
    IF left = 0 THEN ReadOk(<<>>, pos)
    ELSE LET first == TypeDescription_read(blob, pos)
         IN IF ~first.ok THEN ReadFail
            ELSE LET rest == type_descr_read(blob, first.pos, left - 1)
                 IN IF ~rest.ok THEN ReadFail
                    ELSE ReadOk(<<first.val>> \o rest.val, rest.pos)

\* struct SdbParam: magic 5, len, type_descr_idx, flags[2], rw, magic 3,
\* id, name
SdbParam_read(blob, pos) ==
    IF ~Has(blob, pos, 9) \/ blob[pos].n # 5 \/ blob[pos + 5].n \notin AccessModes
                          \/ blob[pos + 6].n # 3
    THEN ReadFail
    ELSE ReadOk(SdbParam(blob[pos + 8].s, blob[pos + 7].n, blob[pos + 2].n), pos + 9)

RECURSIVE SdbParams_read(_, _, _)
\* impl BinRead for SdbParams: count times SdbParam::read_options(..)?
SdbParams_read(blob, pos, count) ==
    IF count = 0 THEN ReadOk(<<>>, pos)
    ELSE LET first == SdbParam_read(blob, pos)
         IN IF ~first.ok THEN ReadFail
            ELSE LET rest == SdbParams_read(blob, first.pos, count - 1)
                 IN IF ~rest.ok THEN ReadFail
                    ELSE ReadOk(<<first.val>> \o rest.val, rest.pos)

NoSdb == [sdb_id |-> 0, type_descr |-> <<>>, parameters |-> <<>>]

\* struct Sdb: magic 1, hdr_len, magic 1, sdb_id, maybe_checksum,
\* total_sbd_size, hdr_data_2[3], type_descr_cnt, type_descr, magic 3,
\* len_xx, magic 0, param_cnt, parameters, magic 6, tail_len, tail:
\* [ok, sdb]
Sdb_read(blob) ==
    IF ~Has(blob, 1, 10) \/ blob[1].n # 1 \/ blob[3].n # 1
    THEN [ok |-> FALSE, sdb |-> NoSdb]
    ELSE LET types == type_descr_read(blob, 11, blob[10].n)
             p == types.pos
         IN IF ~types.ok \/ ~Has(blob, p, 4) \/ blob[p].n # 3 \/ blob[p + 2].n # 0
            THEN [ok |-> FALSE, sdb |-> NoSdb]
            ELSE LET params == SdbParams_read(blob, p + 4, blob[p + 3].n)
                     q == params.pos
                 IN IF ~params.ok \/ ~Has(blob, q, 2) \/ blob[q].n # 6
                                  \/ ~Has(blob, q + 2, blob[q + 1].n - 8)
                    THEN [ok |-> FALSE, sdb |-> NoSdb]
                    ELSE [ok |-> TRUE,
                          sdb |-> [sdb_id |-> blob[4].n, type_descr |-> types.val,
                                   parameters |-> params.val]]

\* `&self.sdb.type_descr[self.descr]`: the index is outside the Vec
descr_out_of_bounds(sdb, t) == t >= Len(sdb.type_descr)

\* what Value::parse_param does first with the TypeInfo of a parameter:
\* param.kind(), then for an Array array_info() and the element's kind(), for
\* a Struct struct_info() and each member's kind().  [elems, panic]: the
\* TypeInfos handed on, and whether one of them indexes outside type_descr.
resolve(sdb, t) ==
    LET kind == TypeInfo_kind(sdb, t)
        elems == CASE kind = "Array" -> <<array_info(sdb, t).ty>>
                   [] kind = "Data" ->
                         [m \in 1..Len(struct_info(sdb, t)) |-> struct_info(sdb, t)[m].type_info]
                   [] OTHER -> <<>>
    IN [elems |-> elems,
        panic |-> \E k \in 1..Len(elems) : descr_out_of_bounds(sdb, elems[k])]

(***************************************************************************)
(* SpecSdb: SDB files of one scalar, one Array and one Struct or Pointer   *)
(* descriptor and up to MaxSdbParams parameters, with every type index     *)
(* drawn from the indices of the table and the first one behind it; files  *)
(* cut short or holding an unknown kind or access mode.                    *)
(***************************************************************************)
MaxSdbParams == 2   \* parameters of an enumerated SDB file

\* the fields a TypeDescription is stored as
TypeDescription_fields(d) ==
    <<Num(4), Num(0), Num(KindCode(d.kind)), Num(d.type_size), Str("")>>
    \o CASE d.kind = "Array" ->
              <<Num(d.payload.type_idx), Num(Len(d.payload.dims))>>
              \o Concat([k \in 1..Len(d.payload.dims) |->
                           <<Num(d.payload.dims[k][1]), Num(d.payload.dims[k][2])>>])
         [] d.kind = "Data" ->
              <<Num(Len(d.payload.members))>>
              \o Concat([k \in 1..Len(d.payload.members) |->
                           <<Num(5), Num(0), Num(d.payload.members[k].type_descr_idx),
                             Num(0), Num(0), Num(0), Str(d.payload.members[k].name)>>])
         [] d.kind = "Pointer" -> <<Num(d.payload.target)>>
         [] OTHER -> <<>>

SdbParam_fields(p, rw) ==
    <<Num(5), Num(0), Num(p.type_descr_idx), Num(0), Num(0), Num(rw), Num(3), Num(p.id), Str(p.name)>>

\* the fields of the file of an Sdb
Sdb_fields(sdb, rw) ==
    <<Num(1), Num(40), Num(1), Num(sdb.sdb_id), Num(0), Num(0), Num(0), Num(0), Num(0), Num(Len(sdb.type_descr))>>
    \o Concat([k \in 1..Len(sdb.type_descr) |-> TypeDescription_fields(sdb.type_descr[k])])
    \o <<Num(3), Num(0), Num(0), Num(Len(sdb.parameters))>>
    \o Concat([k \in 1..Len(sdb.parameters) |-> SdbParam_fields(sdb.parameters[k], rw)])
    \o <<Num(6), Num(8)>>

SdbNames == {".A", ".B"}

\* type tables of three descriptors; an index e, m of 3 lies behind the table
SdbTables ==
    LET idx == 0..3
    IN {<<Scalar("Word", 2), ArrayDesc(4, e, <<<<1, 2>>>>), third>> :
            e \in idx,
            third \in {StructDesc(2, <<StructMember("m", m)>>) : m \in idx}
                      \cup {PointerDesc(m) : m \in {0, 3}}}

SdbParamLists ==
    UNION {{[k \in 1..n |-> SdbParam(names[k], S3ParamId + 4 * k, types[k])] :
                names \in [1..n -> SdbNames], types \in [1..n -> 0..3]} :
           n \in 1..MaxSdbParams}

SdbFiles ==
    LET good == {Sdb_fields([sdb_id |-> S3SdbId, type_descr |-> t, parameters |-> p], 114) :
                    t \in SdbTables, p \in SdbParamLists}
        one == Sdb_fields([sdb_id |-> S3SdbId,
                           type_descr |-> <<Scalar("Word", 2), ArrayDesc(4, 0, <<<<1, 2>>>>),
                                            PointerDesc(0)>>,
                           parameters |-> <<SdbParam(".A", S3ParamId, 1)>>], 114)
    IN good
       \cup {SubSeq(one, 1, n) : n \in 0..(Len(one) - 1)}
       \cup {[one EXCEPT ![13] = Num(4)], [one EXCEPT ![13] = Num(10)]}
       \cup {Sdb_fields([sdb_id |-> S3SdbId,
                         type_descr |-> <<Scalar("Word", 2)>>,
                         parameters |-> <<SdbParam(".A", S3ParamId, 0)>>], rw) :
                rw \in {98, 255, 0}}

NoFind == [name |-> "", ok |-> FALSE, param |-> Parameter_new(0, 0),
           resolved |-> FALSE, elems |-> <<>>, panic |-> FALSE]

InitSdb ==
    /\ mode = "sdb"
    /\ FrameIdle /\ ConnIdle /\ DlIdle /\ ValIdle /\ ReadIdle /\ WriteIdle
    /\ sblob \in SdbFiles
    /\ sload = [ok |-> FALSE, sdb |-> NoSdb]
    /\ sfind = NoFind
    /\ spc = "file"

SdbUnchanged == UNCHANGED <<mode, frameVars, connVars, dlVars, valVars, readVars, writeVars>>

\* Sdb::from_file: Sdb::read of the file
SLoad ==
    /\ mode = "sdb" /\ spc = "file"
    /\ sload' = Sdb_read(sblob)
    /\ spc' = IF Sdb_read(sblob).ok THEN "loaded" ELSE "loaderr"
    /\ UNCHANGED <<sblob, sfind>> /\ SdbUnchanged

\* sdb.param_by_name(name)
SFind ==
    /\ mode = "sdb" /\ spc = "loaded"
    /\ \E name \in SdbNames \cup {".Missing"} :
         LET found == param_by_name(sload.sdb, name)
         IN sfind' = [NoFind EXCEPT !.name = name, !.ok = found.ok, !.param = found.param]
    /\ spc' = "found"
    /\ UNCHANGED <<sblob, sload>> /\ SdbUnchanged

\* the handle's type_info() resolved as Value::parse_param resolves it
SResolve ==
    /\ mode = "sdb" /\ spc = "found" /\ sfind.ok
    /\ LET res == resolve(sload.sdb, Parameter_type_info(sfind.param))
       IN sfind' = [sfind EXCEPT !.resolved = TRUE, !.elems = res.elems, !.panic = res.panic]
    /\ spc' = IF resolve(sload.sdb, Parameter_type_info(sfind.param)).panic
              THEN "panic" ELSE "resolved"
    /\ UNCHANGED <<sblob, sload>> /\ SdbUnchanged

NextSdb == SLoad \/ SFind \/ SResolve

SpecSdb == InitSdb /\ [][NextSdb]_vars

(***************************************************************************)
(* Properties of the batched read.                                         *)
(***************************************************************************)
ReadBuilt == mode = "read" /\ rpc \in {"built", "sent", "head", "params", "done", "err", "panic"}

ReadFramed == mode = "read" /\ rpc \in {"sent", "head", "params", "done", "err", "panic"}

\* the ReadItem the k-th parameter of the builder stands for, off the Sdb
ItemId(k) == SdbFixture.parameters[qset[k].param + 1].id

ItemSize(k) ==
    SdbFixture.type_descr[SdbFixture.parameters[qset[k].param + 1].type_descr_idx + 1].type_size

\* the TypeInfo of a parameter of the builder, off the Sdb
TypeInfo_of(param) == SdbFixture.parameters[param.param + 1].type_descr_idx

\* the is_poll field of the frame in wbuf
FramedIsPoll == BEval(SubSeq(wbuf, 17, 20))

\* C11: the read request built from the parameters p1..pn holds n ReadItems,
\* the i-th being (0x0003, pi.id, wire size of pi's type) in the order the
\* parameters were added, then the Sdb's sdb_id; its count field is n and its
\* is_poll field 1.  A request of any other kind is built with is_poll 0.
C11_ReadRequest ==
    /\ ReadBuilt =>
          /\ pkt.hdr.one_if_data_poll_maybe = 1
          /\ Len(pkt.payload.params) = Len(qset)
          /\ pkt.payload.sdb_id = SdbFixture.sdb_id
    /\ ReadFramed =>
          LET n == Len(qset)
              body == SubSeq(wbuf, 25, Len(wbuf))
          IN /\ FramedIsPoll = 1
             /\ Len(body) = 2 + 4 + 10 * n + 4
             /\ SubSeq(body, 1, 2) = <<46, 0>>
             /\ BEval(SubSeq(body, 3, 6)) = n
             /\ \A k \in 1..n :
                   LET off == 6 + 10 * (k - 1)
                   IN /\ SubSeq(body, off + 1, off + 2) = <<0, 3>>
                      /\ BEval(SubSeq(body, off + 3, off + 6)) = ItemId(k)
                      /\ BEval(SubSeq(body, off + 7, off + 10)) = ItemSize(k)
             /\ BEval(SubSeq(body, 6 + 10 * n + 1, 6 + 10 * n + 4)) = SdbFixture.sdb_id
    /\ (mode = "read" /\ rpc \in {"other", "othersent"}) => pkt.hdr.one_if_data_poll_maybe = 0
    /\ (mode = "read" /\ rpc = "othersent") => FramedIsPoll = 0

C11_Witness ==
    /\ ReadFramed /\ Len(qset) = 2
    /\ ItemId(1) > ItemId(2) /\ ItemSize(1) # ItemSize(2)
    /\ Len(wbuf) = 24 + 30 /\ FramedIsPoll = 1

RECURSIVE SliceOffset(_)
\* where the marker of the k-th parameter lies in a well-formed body: behind
\* error_code, timestamp and the slices of the parameters before it
SliceOffset(k) == IF k = 1 THEN 6 ELSE SliceOffset(k - 1) + 1 + ItemSize(k - 1)

\* the body holds error_code and timestamp and, for every parameter of the
\* query set, a 0x01 marker and wire-size bytes
WellFormedResponse ==
    /\ Len(rxbody) >= 6
    /\ \A k \in 1..Len(qset) : SliceOffset(k) + 1 + ItemSize(k) <= Len(rxbody)
    /\ \A k \in 1..Len(qset) : rxbody[SliceOffset(k) + 1] = 1

ReadParsing == mode = "read" /\ rpc \in {"params", "done", "err", "panic"}

\* the Value the k-th slice of the body decodes to with the k-th parameter's type
SliceValue(k) ==
    Value_parse(SdbFixture,
                SubSeq(rxbody, SliceOffset(k) + 2, SliceOffset(k) + 1 + ItemSize(k)),
                TypeInfo_of(qset[k]))

\* C12: for a query set of n parameters (the same parameter may occur more
\* than once) and a well-formed response, the parse ends with exactly n
\* values, and the i-th value is the one decoded with the i-th parameter's
\* type from the i-th marker-prefixed slice of the body.
C12_ValuesInOrder ==
    (ReadParsing /\ WellFormedResponse) =>
        /\ rpc \in {"params", "done"}
        /\ Len(rdata) <= Len(qset)
        /\ rpc = "done" => Len(rdata) = Len(qset)
        /\ \A k \in 1..Len(rdata) : SliceValue(k).ok /\ rdata[k].val = SliceValue(k).val

C12_Witness ==
    /\ mode = "read" /\ rpc = "done" /\ WellFormedResponse
    /\ Len(qset) = 2 /\ qset[1] = qset[2] /\ Len(rdata) = 2
    /\ rdata[1].val # rdata[2].val

\* C14: decoding a parameter of a batched read response moves the response
\* cursor by exactly 1 marker byte plus the parameter's wire size, whatever
\* the value decoder consumed or skipped inside the slice, and the decoder's
\* alignment offset is 0 at the first byte after the marker, whatever the
\* sizes of the parameters before.
C14_CursorAdvance ==
    ReadParsing =>
        /\ \A k \in 1..Len(rdata) :
              /\ rdata[k].from = SliceOffset(k)
              /\ rdata[k].to - rdata[k].from = 1 + ItemSize(k)
              /\ rdata[k].reads # <<>>
              /\ rdata[k].reads[1].start_pos = 0 /\ rdata[k].reads[1].at = 0
        /\ rpc \in {"params", "done"} => rpos = SliceOffset(Len(rdata) + 1)

\* a 1-byte parameter puts the next value at an odd offset of the body, and
\* that value's decoder leaves the last byte of its slice unread
C14_Witness ==
    /\ mode = "read" /\ rpc = "done" /\ Len(rdata) = 2
    /\ ItemSize(1) = 1 /\ (rdata[2].from + 1) % 2 = 1
    /\ rdata[2].reads[1].kind = "Word" /\ rdata[2].reads[1].at = 0
    /\ LET last == rdata[2].reads[Len(rdata[2].reads)]
       IN last.at + last.size < ItemSize(2)

\* the parse stopped at a parameter slice that is there and does not start
\* with the marker byte 0x01
BadMarkerMet ==
    /\ mode = "read" /\ rpc \in {"err", "panic"}
    /\ Len(rdata) < Len(qset)
    /\ Len(rxbody) >= SliceOffset(Len(rdata) + 1) + 1
    /\ rxbody[SliceOffset(Len(rdata) + 1) + 1] # 1

AckSent == \E k \in 1..Len(log) : log[k].ev = "ack_w"

\* C23: when a parameter slice of a read response does not start with the
\* marker byte 0x01, parsing the response ends with an error value returned
\* to the caller of query, not with an abort of the program (the "66" ack of
\* the exchange can then still be sent).
C23_BadMarkerIsError == BadMarkerMet => rpc = "err"

\* a wrong marker on the second parameter: the parse has aborted, no ack
C23_BadMarkerPanics ==
    /\ BadMarkerMet /\ rpc = "panic" /\ Len(rdata) = 1 /\ ~AckSent

\* no run sends the ack after a wrong marker
C23_NoAckAfterBadMarker == BadMarkerMet => ~AckSent

\* a response cut short is an error value, and the ack is sent after it
C23_TruncatedAcked ==
    /\ mode = "read" /\ rpc = "err" /\ Len(rdata) < Len(qset) /\ AckSent

(***************************************************************************)
(* Properties of the Value codec.                                          *)
(***************************************************************************)
Parsed == mode = "val" /\ vop = "parse" /\ cpc = "done" /\ vres.dec.ok

WideKinds == {"Int", "Word", "Uint", "Dword", "Udint", "Pointer", "Time", "Real"}

\* C13: a scalar leaf wider than one byte (Int, Word, Uint, Dword, Udint,
\* Pointer, Time, Real) that starts at an odd cursor offset is read one byte
\* later, at the next even offset, and in place at an even offset; Bool,
\* Byte and String leaves are read where the cursor stands, and Arrays and
\* Structs move the cursor only through their leaves (each leaf starts where
\* the one before it ended).  A Byte then a Word in [AA 00 FF 12 34 00]
\* reads the Word at offset 2.
C13_Alignment ==
    Parsed =>
        LET rd == vres.dec.reads
        IN /\ \A k \in 1..Len(rd) :
                /\ rd[k].kind \in WideKinds <=> (rd[k].kind # "String" /\ rd[k].size > 1)
                /\ rd[k].at = IF rd[k].kind \in WideKinds /\ rd[k].start_pos % 2 = 1
                              THEN rd[k].start_pos + 1
                              ELSE rd[k].start_pos
                /\ rd[k].start_pos = IF k = 1 THEN 0 ELSE rd[k - 1].at + rd[k - 1].size
           /\ (vty = TypeIdx.ByteWord /\ varg.bytes = AlignExample) =>
                /\ rd = <<Leaf("Byte", 0, 0, 1), Leaf("Word", 1, 2, 2)>>
                /\ vres.dec.val.items = <<Value_Int(I64(0, 0, 0, 170)), Value_Int(I64(0, 0, 0, 65298))>>

C13_Witness ==
    /\ Parsed /\ vty = TypeIdx.ByteWord /\ varg.bytes = AlignExample
    /\ vres.dec.reads[2].start_pos = 1 /\ vres.dec.reads[2].at = 2

\* every wide kind is met at an odd offset, and a String and an Array behind one
C13_OddStructParsed ==
    /\ Parsed /\ vty = TypeIdx.Odd
    /\ \A kd \in WideKinds \cup {"String"} :
          \E k \in 1..Len(vres.dec.reads) :
              vres.dec.reads[k].kind = kd /\ vres.dec.reads[k].start_pos % 2 = 1

Encoded == mode = "val" /\ vop = "encode" /\ cpc \in {"encoded", "done"}

\* a <= b for two i64 given as their 8 big-endian bytes: the order of the
\* bytes once the sign bit is flipped
I64_le(a, b) ==
    LET fa == [a EXCEPT ![1] = (a[1] + 128) % 256]
        fb == [b EXCEPT ![1] = (b[1] + 128) % 256]
    IN \/ fa = fb
       \/ \E k \in 1..8 : fa[k] < fb[k] /\ \A j \in 1..(k - 1) : fa[j] = fb[j]

\* range and width of the destination of each integer kind
IntRange(kind) ==
    CASE kind = "Byte" -> [lo |-> Zero8, hi |-> I64(0, 0, 0, 255), width |-> 1, signed |-> FALSE]
      [] kind = "Int" -> [lo |-> I64(65535, 65535, 65535, 32768), hi |-> I64(0, 0, 0, 32767),
                          width |-> 2, signed |-> TRUE]
      [] kind \in {"Word", "Uint"} ->
            [lo |-> Zero8, hi |-> I64(0, 0, 0, 65535), width |-> 2, signed |-> FALSE]
      [] kind \in {"Dword", "Udint"} ->
            [lo |-> Zero8, hi |-> I64(0, 0, 65535, 65535), width |-> 4, signed |-> FALSE]

\* the i64 whose value the big-endian bytes of a destination stand for
Widen(bytes, signed) ==
    [k \in 1..(8 - Len(bytes)) |-> IF signed /\ bytes[1] >= 128 THEN 255 ELSE 0] \o bytes

IntKinds == {"Byte", "Int", "Word", "Uint", "Dword", "Udint"}

\* C15: encoding an integer against Byte, Int, Word, Uint, Dword or Udint
\* returns the big-endian bytes of exactly the destination's width, standing
\* for the same number, when the integer lies in the destination's range, and
\* an error without bytes when it lies outside: never a truncated or wrapped
\* value.
C15_IntRangeChecked ==
    (Encoded /\ varg.val.tag = "Int" /\ TypeInfo_kind(SdbFixture, vty) \in IntKinds) =>
        LET x == varg.val.i
            d == IntRange(TypeInfo_kind(SdbFixture, vty))
        IN IF I64_le(d.lo, x) /\ I64_le(x, d.hi)
           THEN /\ vres.enc.ok /\ ~vres.enc.panic
                /\ Len(vres.enc.bytes) = d.width
                /\ Widen(vres.enc.bytes, d.signed) = x
           ELSE ~vres.enc.ok /\ ~vres.enc.panic /\ vres.enc.bytes = <<>>

C15_Witness ==
    /\ Encoded /\ vty = TypeIdx.Int /\ varg.val = Value_Int(I64(65535, 65535, 65535, 32768))
    /\ vres.enc.ok /\ vres.enc.bytes = <<128, 0>>

\* an integer one above the range of its destination
C15_OutOfRange ==
    /\ Encoded /\ vty = TypeIdx.Int /\ varg.val = Value_Int(I64(0, 0, 0, 32768))
    /\ ~vres.enc.ok

EncodedBytes == mode = "val" /\ vop = "encode_bytes" /\ cpc \in {"encoded", "done"}

\* C16: encoding a byte string S against a String type of wire size W
\* returns exactly W bytes, S followed by W - len(S) NUL bytes, when
\* len(S) <= W, and an error when len(S) > W; "User1234" against a 16-byte
\* String gives 55 73 65 72 31 32 33 34 and eight 00.
C16_StringPadded ==
    (EncodedBytes /\ TypeInfo_kind(SdbFixture, vty) = "String") =>
        LET S == varg.bytes
            W == SdbFixture.type_descr[vty + 1].type_size
        IN /\ IF Len(S) <= W
              THEN /\ vres.enc.ok /\ ~vres.enc.panic
                   /\ vres.enc.bytes = S \o [k \in 1..(W - Len(S)) |-> 0]
              ELSE ~vres.enc.ok /\ ~vres.enc.panic /\ vres.enc.bytes = <<>>
           /\ (S = <<85, 115, 101, 114, 49, 50, 51, 52>> /\ W = 16) =>
                 vres.enc.bytes = <<85, 115, 101, 114, 49, 50, 51, 52, 0, 0, 0, 0, 0, 0, 0, 0>>

C16_Witness ==
    /\ EncodedBytes /\ vty = TypeIdx.String16 /\ varg.bytes = User1234
    /\ vres.enc.ok /\ Len(vres.enc.bytes) = 16 /\ vres.enc.bytes[9] = 0

\* a slice one byte longer than the parameter
C16_TooLong ==
    /\ EncodedBytes /\ vty = TypeIdx.String2 /\ Len(varg.bytes) = 3 /\ ~vres.enc.ok

\* the value lies in the valid range of the scalar kind
InValidRange(v, kind) ==
    CASE kind = "Bool" -> v.tag = "Bool"
      [] kind \in IntKinds ->
            v.tag = "Int" /\ I64_le(IntRange(kind).lo, v.i) /\ I64_le(v.i, IntRange(kind).hi)
      [] kind = "Time" ->
            v.tag = "Int" /\ I64_le(Zero8, v.i) /\ I64_le(v.i, I64(0, 0, 65535, 65535))
      [] kind = "Real" -> v.tag = "Float"
      [] OTHER -> FALSE

RoundTripKinds == {"Bool", "Byte", "Int", "Word", "Uint", "Dword", "Udint", "Time", "Real"}

\* C17: for every scalar type T (Bool, Byte, Int, Word, Uint, Dword, Udint,
\* Time, Real) and every value V in T's valid range, encoding V against T
\* succeeds, and decoding the encoded bytes against T yields V again.
C17_ScalarRoundTrip ==
    (Encoded /\ TypeInfo_kind(SdbFixture, vty) \in RoundTripKinds
             /\ InValidRange(varg.val, TypeInfo_kind(SdbFixture, vty))) =>
        /\ vres.enc.ok
        /\ cpc = "done" => (vres.dec.ok /\ vres.dec.val = varg.val)

\* the round trip of the kinds opc_encode has an arm for
C17_EncodableRoundTrip ==
    (Encoded /\ TypeInfo_kind(SdbFixture, vty) \in RoundTripKinds \ {"Time", "Real"}
             /\ InValidRange(varg.val, TypeInfo_kind(SdbFixture, vty))) =>
        /\ vres.enc.ok
        /\ cpc = "done" => (vres.dec.ok /\ vres.dec.val = varg.val)

\* a Float against a Real type: the encode does not return
C17_FloatPanics ==
    /\ Encoded /\ vty = TypeIdx.Real /\ varg.val = Value_Float(<<63, 192, 0, 0>>)
    /\ vres.enc.panic

\* an in-range integer against a Time type: the encode returns an error
C17_TimeRejected ==
    /\ Encoded /\ vty = TypeIdx.Time /\ varg.val = Value_Int(I64(0, 0, 0, 1000))
    /\ ~vres.enc.ok /\ ~vres.enc.panic

BytesDecoded ==
    /\ mode = "val" /\ vop = "encode_bytes" /\ cpc = "done"
    /\ TypeInfo_kind(SdbFixture, vty) = "String"

RECURSIVE StripTrailingNuls(_)
StripTrailingNuls(S) ==
    IF S # <<>> /\ S[Len(S)] = 0 THEN StripTrailingNuls(SubSeq(S, 1, Len(S) - 1)) ELSE S

RECURSIVE BeforeFirstNul(_)
BeforeFirstNul(S) ==
    IF S = <<>> \/ Head(S) = 0 THEN <<>> ELSE <<Head(S)>> \o BeforeFirstNul(Tail(S))

\* S holds a NUL byte before its last non-NUL byte
InteriorNul(S) == \E j, k \in 1..Len(S) : j < k /\ S[j] = 0 /\ S[k] # 0

\* C18 as stated: for a String type of width W and any byte string S with
\* len(S) <= W, including strings that contain a NUL byte before their last
\* non-NUL byte, decoding the encoding of S yields S with only its trailing
\* NULs stripped.
C18_Original ==
    BytesDecoded =>
        /\ vres.dec.ok
        /\ vres.dec.val = Value_String(CP1252_decode(StripTrailingNuls(varg.bytes)))

\* C18 (amended): for a String type of width W and any byte string S with
\* len(S) <= W, decoding the encoding of S yields S with only its trailing
\* NULs stripped when S contains no NUL byte before its last non-NUL byte,
\* and the bytes of S before its first NUL byte when it contains one.
C18_StringRoundTrip ==
    BytesDecoded =>
        /\ Len(varg.bytes) <= SdbFixture.type_descr[vty + 1].type_size
        /\ vres.dec.ok
        /\ vres.dec.val =
              Value_String(CP1252_decode(IF InteriorNul(varg.bytes)
                                         THEN BeforeFirstNul(varg.bytes)
                                         ELSE StripTrailingNuls(varg.bytes)))

C18_Witness ==
    /\ BytesDecoded /\ vty = TypeIdx.String16 /\ varg.bytes = <<65, 0, 66>>
    /\ vres.enc.bytes[3] = 66 /\ vres.dec.val = Value_String(<<65>>)

\* a string without an interior NUL, with trailing NULs and a byte that
\* Windows-1252 maps away from its own number
C18_TrailingStripped ==
    /\ BytesDecoded /\ vty = TypeIdx.String16 /\ varg.bytes = <<128, 0, 0>>
    /\ vres.dec.val = Value_String(<<8364>>)

FromStrDone == mode = "val" /\ vop = "from_str" /\ cpc = "done"

\* the kinds from_str has a parsing arm for
FromStrKinds == {"Bool", "Real", "String"} \cup IntKinds

\* the Value the text parses to for the kind: [ok, val]
TextValue(text, kind) ==
    CASE kind = "Bool" -> [ok |-> parse_bool(text).ok, val |-> Value_Bool(parse_bool(text).b)]
      [] kind = "Real" -> [ok |-> parse_f32(text).ok, val |-> Value_Float(parse_f32(text).f)]
      [] kind = "String" -> [ok |-> TRUE, val |-> Value_String(text)]
      [] OTHER -> [ok |-> parse_i64(text).ok, val |-> Value_Int(parse_i64(text).i)]

\* the result is Ok(v) exactly when the text parses to v and the trial
\* encode of v succeeds, and an error result otherwise
FromStrChecked ==
    LET kind == TypeInfo_kind(SdbFixture, vty)
        v == TextValue(varg.text, kind)
        fits == v.ok /\ opc_encode(SdbFixture, v.val, vty).ok
    IN /\ ~vres.str.panic
       /\ vres.str.ok <=> fits
       /\ vres.str.ok => vres.str.val = v.val

\* C19: value_from_str returns a Value only after a trial encode of it
\* against the type has succeeded: for every text and every type whose kind
\* it supports, the result is Ok(v) exactly when the text parses to a v of
\* the type's kind and encode(v, type) succeeds, and an error result (not an
\* abort) otherwise.
C19_FromStrChecked ==
    (FromStrDone /\ TypeInfo_kind(SdbFixture, vty) \in FromStrKinds) => FromStrChecked

\* the same for the kinds whose encode is implemented
C19_EncodableChecked ==
    (FromStrDone /\ TypeInfo_kind(SdbFixture, vty) \in FromStrKinds \ {"Real"}) => FromStrChecked

\* a number handed to a Real parameter: from_str does not return
C19_RealAborts ==
    /\ FromStrDone /\ vty = TypeIdx.Real /\ varg.text = <<50>>
    /\ vres.str.panic

\* a number that parses but does not fit its type is an error result
C19_OutOfRangeRejected ==
    /\ FromStrDone /\ vty = TypeIdx.Byte /\ varg.text = <<50, 53, 54>>
    /\ ~vres.str.ok /\ ~vres.str.panic

(***************************************************************************)
(* Properties of the batched write.                                        *)
(***************************************************************************)
\* the value of the k-th pair of the write encodes against its parameter's type
Encodable(k) ==
    opc_encode(SdbFixture, wreq[k].val,
               Parameter_type_info(param_by_name(SdbFixture, wreq[k].name).param)).ok

\* the number of WriteItems in the frame of wbuf
FramedItems == BEval(SubSeq(wbuf, 27, 30))

\* C20: when the value of an item of a batched write cannot be encoded, the
\* failure is raised while the items are being built, before any byte of the
\* write request is written to the socket: a request is sent only with all
\* the items of the write, never with some of them.
C20_NoPartialWrite ==
    mode = "write" =>
        /\ (\E k \in 1..Len(wreq) : ~Encodable(k)) =>
              /\ log = <<>> /\ wbuf = <<>> /\ pkt = NoPacket
              /\ wpc \in {"items", "err", "panic"}
        /\ wpc \in {"err", "panic"} =>
              /\ log = <<>> /\ wbuf = <<>>
              /\ Len(witems) < Len(wreq) /\ ~Encodable(Len(witems) + 1)
        /\ log # <<>> =>
              /\ Len(witems) = Len(wreq)
              /\ FramedItems = Len(wreq)
              /\ \A k \in 1..Len(wreq) :
                    witems[k].data =
                        opc_encode(SdbFixture, wreq[k].val,
                                   Parameter_type_info(param_by_name(SdbFixture,
                                                                     wreq[k].name).param)).bytes

\* the first item was built, the second one's value does not fit: nothing sent
C20_Witness ==
    /\ mode = "write" /\ wpc = "err" /\ Len(wreq) = 2 /\ Len(witems) = 1
    /\ Encodable(1) /\ ~Encodable(2)
    /\ log = <<>> /\ wbuf = <<>>

\* a write of two items that both encode leaves as one request
C20_AllSent ==
    /\ mode = "write" /\ wpc = "sent" /\ Len(wreq) = 2 /\ FramedItems = 2
    /\ Len(log) = 1 /\ log[1].ok

(***************************************************************************)
(* Properties of the loaded Sdb.                                           *)
(***************************************************************************)
Looked == mode = "sdb" /\ spc \in {"found", "resolved", "panic"}

\* the parameters of the loaded Sdb that carry the name looked up
Carriers == {k \in 1..Len(sload.sdb.parameters) : sload.sdb.parameters[k].name = sfind.name}

\* the lookup returned a handle with P's id and the wire size of the
\* descriptor at P's type index, P the k-th parameter
FoundAs(k) ==
    LET P == sload.sdb.parameters[k]
    IN /\ sfind.ok
       /\ sload.sdb.parameters[sfind.param.param + 1].id = P.id
       /\ P.type_descr_idx < Len(sload.sdb.type_descr)
       /\ sload.sdb.type_descr[sfind.param.descr + 1].type_size
            = sload.sdb.type_descr[P.type_descr_idx + 1].type_size

\* C21 as stated: for every parameter P in a loaded Sdb, param_by_name(P.name)
\* succeeds and returns a handle whose id equals P.id and whose type's wire
\* size equals the wire size of the type descriptor at P's type index; for a
\* name carried by no parameter it returns a not-found error.
C21_Original ==
    Looked =>
        /\ \A k \in Carriers : FoundAs(k)
        /\ Carriers = {} => ~sfind.ok

\* C21 (amended): for every parameter P in a loaded Sdb that is the first
\* parameter carrying its name and whose type index lies inside the
\* type-descriptor table, param_by_name(P.name) succeeds and returns a handle
\* whose id equals P.id and whose type's wire size equals the wire size of
\* the type descriptor at P's type index; when the first parameter carrying
\* the name has a type index outside the table it returns an error, and for
\* a name carried by no parameter it returns a not-found error.
C21_FirstByName ==
    Looked =>
        /\ \A k \in Carriers :
              (\A j \in Carriers : k <= j) =>
                  IF sload.sdb.parameters[k].type_descr_idx < Len(sload.sdb.type_descr)
                  THEN FoundAs(k) /\ sfind.param.param = k - 1
                  ELSE ~sfind.ok
        /\ Carriers = {} => ~sfind.ok

\* two parameters carry the name, with different ids and types of different
\* sizes: the handle is the first one's
C21_Witness ==
    /\ Looked /\ sfind.ok /\ Carriers = {1, 2}
    /\ sload.sdb.parameters[1].type_descr_idx = 0
    /\ sload.sdb.parameters[2].type_descr_idx = 1
    /\ FoundAs(1) /\ ~FoundAs(2)

\* a name no parameter carries
C21_NotFound == Looked /\ Carriers = {} /\ ~sfind.ok

\* the only parameter carrying the name has a type index behind the table
C21_BadTypeIndex ==
    /\ Looked /\ Cardinality(Carriers) = 1 /\ ~sfind.ok
    /\ \E k \in Carriers : sload.sdb.parameters[k].type_descr_idx = Len(sload.sdb.type_descr)

Loaded == mode = "sdb" /\ spc \in {"loaded", "found", "resolved", "panic"}

\* every type index the table and the parameters of the Sdb refer to
ReferencedTypes(sdb) ==
    {sdb.parameters[k].type_descr_idx : k \in 1..Len(sdb.parameters)}
    \cup {sdb.type_descr[k].payload.type_idx :
             k \in {j \in 1..Len(sdb.type_descr) : sdb.type_descr[j].kind = "Array"}}
    \cup {sdb.type_descr[k].payload.target :
             k \in {j \in 1..Len(sdb.type_descr) : sdb.type_descr[j].kind = "Pointer"}}
    \cup UNION {{sdb.type_descr[k].payload.members[m].type_descr_idx :
                    m \in 1..Len(sdb.type_descr[k].payload.members)} :
                k \in {j \in 1..Len(sdb.type_descr) : sdb.type_descr[j].kind = "Data"}}

\* C22: in every successfully loaded Sdb, every type index referenced by a
\* parameter, an Array element, a Struct member or a Pointer lies inside the
\* type-descriptor table (a file with an index outside it fails to load), and
\* resolving type information through array_info or struct_info never
\* indexes outside the table.
C22_IndicesInTable ==
    /\ Loaded => \A t \in ReferencedTypes(sload.sdb) : t < Len(sload.sdb.type_descr)
    /\ mode = "sdb" => spc # "panic"

\* a file whose Array element type lies behind the table has loaded, and
\* resolving the Array parameter's element indexes outside type_descr
C22_LoadedOutOfRange ==
    /\ mode = "sdb" /\ spc = "panic" /\ sload.ok
    /\ Len(sload.sdb.type_descr) = 3 /\ sload.sdb.type_descr[2].payload.type_idx = 3
    /\ sfind.elems = <<3>>

\* the files that do fail to load: cut short, unknown kind, unknown access mode
C22_LoadFails == mode = "sdb" /\ spc = "loaderr" /\ ~sload.ok

\* the Value a slice of the parsed bytes decodes to on its own
SliceDecoded(from, size, t) ==
    Value_parse(SdbFixture, SubSeq(varg.bytes, from + 1, from + size), t).val

\* the descriptor of the type parsed, as the Sdb holds it
ParsedDescr == SdbFixture.type_descr[vty + 1]

\* the members of a Struct in front of its first Array or Struct member
LeadingLeaves(members) ==
    LET isLeaf(m) == SdbFixture.type_descr[members[m].type_descr_idx + 1].kind
                        \notin {"Array", "Data"}
    IN {m \in 1..Len(members) : \A j \in 1..m : isLeaf(j)}

\* C24: decoding an Array type whose dimensions are the inclusive ranges
\* [lo1, hi1] (and optionally [lo2, hi2]) yields Value::Array of
\* N = hi1 - lo1 + 1 elements for one dimension and Value::Matrix of N outer
\* rows of M = hi2 - lo2 + 1 elements each for two, the elements taken from
\* the wire in order, the outer dimension first; decoding a Struct yields
\* its members as (name, value) pairs in declaration order.
C24_ArrayMatrixStruct ==
    Parsed =>
        LET d == ParsedDescr
            v == vres.dec.val
            dims == d.payload.dims
            elem == d.payload.type_idx
            es == SdbFixture.type_descr[elem + 1].type_size
            N == dims[1][2] - dims[1][1] + 1
            M == dims[2][2] - dims[2][1] + 1
        IN /\ (d.kind = "Array" /\ Len(dims) = 1) =>
                 /\ v.tag = "Array" /\ Len(v.items) = N
                 /\ \A k \in 1..N : v.items[k] = SliceDecoded((k - 1) * es, es, elem)
           /\ (d.kind = "Array" /\ Len(dims) = 2) =>
                 /\ v.tag = "Matrix" /\ Len(v.rows) = N
                 /\ \A row \in 1..N :
                       /\ Len(v.rows[row]) = M
                       /\ \A col \in 1..M :
                             v.rows[row][col]
                                = SliceDecoded(((row - 1) * M + col - 1) * es, es, elem)
           /\ d.kind = "Data" =>
                 /\ v.tag = "Struct"
                 /\ v.names = [m \in 1..Len(d.payload.members) |-> d.payload.members[m].name]
                 /\ Len(v.items) = Len(d.payload.members)
                 /\ \A m \in LeadingLeaves(d.payload.members) :
                       v.items[m] = SliceDecoded(vres.dec.reads[m].at, vres.dec.reads[m].size,
                                                 d.payload.members[m].type_descr_idx)
                 /\ \A m \in 1..Len(d.payload.members) :
                       SdbFixture.type_descr[d.payload.members[m].type_descr_idx + 1].kind
                          = "Array" => v.items[m].tag = "Array"

\* a Matrix of 2 rows of 3 bytes, all different
C24_Witness ==
    /\ Parsed /\ vty = TypeIdx.Matrix /\ Len(varg.bytes) = 6
    /\ Len(vres.dec.val.rows) = 2 /\ Len(vres.dec.val.rows[1]) = 3
    /\ vres.dec.val.rows[1][3] = SliceDecoded(2, 1, TypeIdx.Byte)
    /\ vres.dec.val.rows[2][1] = SliceDecoded(3, 1, TypeIdx.Byte)
    /\ vres.dec.val.rows[1][3] # vres.dec.val.rows[2][1]

\* an Array of two Words over the range [2, 3]
C24_ArrayParsed ==
    /\ Parsed /\ vty = TypeIdx.Array /\ Len(vres.dec.val.items) = 2
    /\ vres.dec.val.items[1] # vres.dec.val.items[2]

\* a Struct of many members and an Array of Structs
C24_StructParsed ==
    /\ Parsed /\ vty = TypeIdx.Odd
    /\ Len(vres.dec.val.items) = Len(OddMembers) /\ vres.dec.val.names[2] = "i"

C24_ArrayOfStructParsed ==
    /\ Parsed /\ vty = TypeIdx.ArrayOfStruct
    /\ vres.dec.val.items[2].names = <<"b", "w">>

(***************************************************************************)
(* Properties of the error paths of query.                                 *)
(***************************************************************************)
\* the events of call c in the log
EventsOf(c) == {log[i].ev : i \in {j \in 1..Len(log) : log[j].call = c}}

RequestWritten(c) == Done(c, "req_w", Len(log) + 1)

\* the handshake of call c succeeded: ack written, 24 reply bytes read
HandshakeOk(c) == Done(c, "ack_w", Len(log) + 1) /\ Done(c, "ack_r", Len(log) + 1)

\* C25: in Connection::query, once the request has been written, the "66"
\* handshake is performed also when reading or parsing the response failed;
\* query returns the response's error if the handshake succeeds, the
\* handshake's error (dropping the response error) if the handshake fails,
\* and an error discarding a successfully parsed response if only the
\* handshake fails.  When writing the request fails, neither a response read
\* nor an ack is attempted.
C25_AckOnErrorPaths ==
    \A c \in 1..Len(results) :
        LET res == results[c]
        IN /\ RequestWritten(c) =>
                /\ "hdr_r" \in EventsOf(c) /\ "ack_w" \in EventsOf(c)
                /\ (~res.r.ok /\ HandshakeOk(c)) => (~res.ok /\ res.src = "recv")
                /\ (~res.r.ok /\ ~HandshakeOk(c)) => (~res.ok /\ res.src = "ack")
                /\ (res.r.ok /\ ~HandshakeOk(c)) =>
                      (~res.ok /\ res.src = "ack" /\ res.val = <<>>)
                /\ (res.r.ok /\ HandshakeOk(c)) => (res.ok /\ res.val = res.r.data)
           /\ ~RequestWritten(c) =>
                /\ EventsOf(c) = {"req_w"}
                /\ ~res.ok /\ res.src = "send"

\* a response that could not be read, followed by a complete handshake
C25_Witness ==
    \E c \in 1..Len(results) :
        /\ RequestWritten(c) /\ ~results[c].r.ok /\ HandshakeOk(c)
        /\ results[c].src = "recv"

\* a response that failed and a handshake that failed after it
C25_HandshakeErrorWins ==
    \E c \in 1..Len(results) :
        /\ RequestWritten(c) /\ ~results[c].r.ok /\ ~HandshakeOk(c)
        /\ "body_r" \in EventsOf(c) /\ results[c].src = "ack"

\* a parsed response lost to a failed handshake
C25_ParsedDiscarded ==
    \E c \in 1..Len(results) :
        /\ results[c].r.ok /\ results[c].r.data # <<>> /\ ~HandshakeOk(c)
        /\ ~results[c].ok

\* a request that could not be written
C25_SendFailed ==
    \E c \in 1..Len(results) : ~RequestWritten(c) /\ results[c].src = "send"

(***************************************************************************)
(* Properties of the ParamQuerySetBuilder.                                 *)
(***************************************************************************)
\* the handle a call adds, if it adds one
AddedBy(call) ==
    IF call.fn = "add_param" THEN [ok |-> TRUE, param |-> call.param]
    ELSE LET k == CHOOSE k \in 0..Len(SdbFixture.parameters) :
                    \/ k = 0 /\ \A j \in 1..Len(SdbFixture.parameters) :
                                    SdbFixture.parameters[j].name # call.name
                    \/ k > 0 /\ SdbFixture.parameters[k].name = call.name
         IN IF k = 0 THEN NoParam
            ELSE [ok |-> TRUE,
                  param |-> [param |-> k - 1,
                             descr |-> SdbFixture.parameters[k].type_descr_idx]]

\* the successfully added handles of the calls, in call order
RECURSIVE SuccessfullyAdded(_)
SuccessfullyAdded(cs) ==
    IF cs = <<>> THEN <<>>
    ELSE LET front == SuccessfullyAdded(SubSeq(cs, 1, Len(cs) - 1))
             last == AddedBy(cs[Len(cs)])
         IN IF last.ok THEN front \o <<last.param>> ELSE front

\* a step of the builder that takes one more call
BuilderStep == rpc = "build" /\ rpc' = "build" /\ Len(bcalls') = Len(bcalls) + 1

\* C26: ParamQuerySetBuilder::add(name) appends exactly one parameter handle
\* at the end of the builder's list when the name resolves, and leaves the
\* list unchanged (same handles, same order) when the name does not resolve;
\* after any sequence of add and add_param calls the list holds the
\* successfully added parameters in call order, duplicates included.
C26_BuilderKeepsCallOrder ==
    /\ [](rpc = "build" => qset = SuccessfullyAdded(bcalls))
    /\ [][BuilderStep =>
            LET call == bcalls'[Len(bcalls')]
                added == AddedBy(call)
            IN /\ (call.fn = "add" /\ added.ok) =>
                    /\ Len(qset') = Len(qset) + 1
                    /\ SubSeq(qset', 1, Len(qset)) = qset
                    /\ qset'[Len(qset')] = added.param
               /\ (call.fn = "add" /\ ~added.ok) => qset' = qset
               /\ call.fn = "add_param" => qset' = qset \o <<call.param>>]_vars

\* an add that resolved, an add that did not, and an add_param of the handle
\* already in the list
C26_Witness ==
    /\ rpc = "build" /\ Len(bcalls) = 3 /\ Len(qset) = 2
    /\ bcalls[1].fn = "add" /\ AddedBy(bcalls[1]).ok
    /\ bcalls[2].fn = "add" /\ ~AddedBy(bcalls[2]).ok
    /\ bcalls[3].fn = "add_param"
    /\ qset[1] = qset[2]

====
